---- MODULE Spec2Model ----
(***************************************************************************)
(* raxtax: the reference index builder (src/src/tree.rs) and the run       *)
(* lifecycle of the command line tool: output set-up and checkpoint        *)
(* resume (src/src/io.rs), the parallel dispatch (src/src/raxtax.rs) and   *)
(* the writer thread, join and clean-up (src/src/main.rs).                 *)
(***************************************************************************)
EXTENDS Integers, Sequences, FiniteSets, TLC

(***************************************************************************)
(* Bounds of the model.                                                    *)
(***************************************************************************)
\* Largest number of reference rows handed to Tree::new.
MaxRows == 3
\* Number of queries in the query file.
NumQueries == 2
\* Number of invocations of the tool on the one output prefix.
MaxRuns == 2
\* Number of invocations when a rejected checkpoint is followed by a resume.
MaxResumes == 3
\* Largest worker count (--threads).
NumWorkers == 2
\* Smallest chunk size used with more than one worker.  main.rs:123 has 100;
\* it is scaled down here so that a few queries already make several chunks.
MinChunk == 1

(***************************************************************************)
(* Strings are sequences of byte values, compared as Rust compares String. *)
(***************************************************************************)
chPlus == 43
chComma == 44
chA == 65
chB == 66
chC == 67

\* The lineages reference rows are drawn from: variable depth, a last token
\* repeating its parent, and a taxon name with a byte sorting before ','.
LineagePool ==
  { <<chA>>,
    <<chA, chComma, chB>>,
    <<chA, chComma, chB, chComma, chB>>,
    <<chA, chComma, chB, chComma, chC>>,
    <<chA, chComma, chB, chPlus, chComma, chC>>,
    <<chA, chComma, chC>>,
    <<chB>> }

RECURSIVE SeqsUpTo(_, _)
\* All sequences over S of length 0..n.
SeqsUpTo(S, n) ==
  IF n = 0 THEN { <<>> }
  ELSE LET shorter == SeqsUpTo(S, n - 1)
       IN  shorter \cup { Append(s, x) : s \in { t \in shorter : Len(t) = n - 1 }, x \in S }

RECURSIVE StrLess(_, _)
\* str::cmp: byte-wise lexicographic order, a proper prefix sorts first.
StrLess(a, b) ==
  IF Len(b) = 0 THEN FALSE
  ELSE IF Len(a) = 0 THEN TRUE
  ELSE IF Head(a) # Head(b) THEN Head(a) < Head(b)
  ELSE StrLess(Tail(a), Tail(b))

RECURSIVE InsertSorted(_, _)
\* Place x after every element that is not greater than it (stable).
InsertSorted(s, x) ==
  IF Len(s) = 0 THEN <<x>>
  ELSE IF StrLess(x, Head(s)) THEN <<x>> \o s
  ELSE <<Head(s)>> \o InsertSorted(Tail(s), x)

RECURSIVE SortLineages(_)
\* lineage_sequence_pairs.sort_by(|(l1, _), (l2, _)| l1.cmp(l2)), a stable sort.
SortLineages(s) ==
  IF Len(s) = 0 THEN <<>>
  ELSE InsertSorted(SortLineages(SubSeq(s, 1, Len(s) - 1)), s[Len(s)])

RECURSIVE SplitFrom(_, _, _)
SplitFrom(s, i, cur) ==
  IF i > Len(s) THEN <<cur>>
  ELSE IF s[i] = chComma THEN <<cur>> \o SplitFrom(s, i + 1, <<>>)
  ELSE SplitFrom(s, i + 1, Append(cur, s[i]))

\* lineage.split(',')
Split(s) == SplitFrom(s, 1, <<>>)

(***************************************************************************)
(* The trie.  root is the list of all nodes in creation order; node 1 is   *)
(* the root node and parent = 0 marks it.  The children of a node, in the  *)
(* order of its children vector, are the nodes naming it as parent in      *)
(* creation order.                                                         *)
(***************************************************************************)
RootLabel == <<114, 111, 111, 116>>

\* Node::new
NewNode(label, confidence_idx, node_type, parent) ==
  [label |-> label, lo |-> confidence_idx, hi |-> confidence_idx + 1,
   node_type |-> node_type, parent |-> parent]

Children(ns, n) == { i \in 1..Len(ns) : ns[i].parent = n }

Max(S) == CHOOSE x \in S : \A y \in S : y <= x

\* children.last(): 0 when there is no child
LastChild(ns, n) == IF Children(ns, n) = {} THEN 0 ELSE Max(Children(ns, n))

\* Node::get_last_child_label matched against the next token
LastChildHasLabel(ns, n, label) ==
  /\ LastChild(ns, n) # 0
  /\ ns[LastChild(ns, n)].label = label

\* Node::add_child
AddChild(ns, child) == Append(ns, child)

RECURSIVE Descend(_, _, _, _, _)
\* The loop over the levels of one lineage.  Yields the nodes, the node the
\* loop ends at and confidence_idx.
Descend(ns, cur, levels, level, cidx) ==
  IF level > Len(levels) THEN [nodes |-> ns, cur |-> cur, cidx |-> cidx]
  ELSE
    LET label == levels[level]
        last == (level = Len(levels))
        node_type == IF last THEN "Taxon" ELSE "Inner"
        ns1 == IF LastChildHasLabel(ns, cur, label) THEN ns
               ELSE AddChild(ns, NewNode(label, cidx, node_type, cur))
        ns2 == [ns1 EXCEPT ![cur].hi = cidx + 1]
        cidx2 == IF last THEN cidx + 1 ELSE cidx
    IN  Descend(ns2, LastChild(ns2, cur), levels, level + 1, cidx2)

\* The closure run for one sorted row: descend, then append the Sequence stub.
InsertLineage(ns, cidx, lineage) ==
  LET d == Descend(ns, 1, Split(lineage), 1, cidx)
      withStub == AddChild(d.nodes,
                           NewNode(d.nodes[d.cur].label, d.cidx - 1, "Sequence", d.cur))
  IN  [nodes |-> [withStub EXCEPT ![d.cur].hi = d.cidx], cidx |-> d.cidx]

(***************************************************************************)
(* The 8-mer index.  A reference sequence is a sequence of 4-bit codes     *)
(* (A = 1, C = 2, G = 4, T = 8, an ambiguity code is the OR of the bases   *)
(* it covers).  k_mer_map is kept sparse: a key outside the domain of the  *)
(* function has the empty posting list vec![Vec::new(); 2 << 15] starts    *)
(* with.                                                                   *)
(***************************************************************************)
\* windows(8), sequence[0..8]: the width of a k-mer
KmerLen == 8
\* 2 << 15: the number of 16-bit keys
NumKeys == 65536

\* the value of a u16 expression
U16(x) == x % NumKeys

RECURSIVE BitOr(_, _)
\* a | b
BitOr(a, b) ==
  IF a = 0 THEN b
  ELSE IF b = 0 THEN a
  ELSE (IF a % 2 = 1 \/ b % 2 = 1 THEN 1 ELSE 0) + 2 * BitOr(a \div 2, b \div 2)

\* a << n on u16: the bits shifted out are lost
Shl16(a, n) == U16(a * 2^n)

\* Some(c) is <<c>>, None is <<>>: a pure base has a 2-bit code, every other
\* code has none.
map_four_to_two_bit_repr(c) ==
  IF c = 1 THEN <<0>>
  ELSE IF c = 2 THEN <<1>>
  ELSE IF c = 4 THEN <<2>>
  ELSE IF c = 8 THEN <<3>>
  ELSE <<>>

RECURSIVE WindowKey(_, _, _)
\* vals.iter().enumerate().map(|(j, v)| repr(*v).map(|c| c << (14 - j * 2)))
\*     .fold_options(0_u16, |acc, c| acc | c); j is one more than in the code
WindowKey(vals, j, acc) ==
  IF j > Len(vals) THEN <<acc>>
  ELSE LET c == map_four_to_two_bit_repr(vals[j])
       IN  IF c = <<>> THEN <<>>
           ELSE WindowKey(vals, j + 1, BitOr(acc, Shl16(c[1], 14 - (j - 1) * 2)))

\* k_mer_map[k_mer as usize]
PostingList(m, k) == IF k \in DOMAIN m THEN m[k] ELSE <<>>

\* k_mer_map[k_mer as usize].push(idx)
PushId(m, k, idx) ==
  IF k \in DOMAIN m THEN [m EXCEPT ![k] = Append(@, idx)] ELSE m @@ (k :> <<idx>>)

RECURSIVE PushWindows(_, _, _, _)
\* sequence.windows(8).for_each(..): the windows from the i-th on
PushWindows(m, idx, sequence, i) ==
  IF i + KmerLen - 1 > Len(sequence) THEN m
  ELSE LET k_mer == WindowKey(SubSeq(sequence, i, i + KmerLen - 1), 1, 0)
       IN  PushWindows(IF k_mer = <<>> THEN m ELSE PushId(m, k_mer[1], idx),
                       idx, sequence, i + 1)

RECURSIVE UniqueKeepAll(_)
UniqueKeepAll(s) ==
  IF Len(s) = 0 THEN <<>> ELSE <<Head(s)>> \o UniqueKeepAll(Tail(s))

RECURSIVE Unique(_)
\* Itertools::unique: the first occurrence of every element, in order
Unique(s) ==
  IF Len(s) = 0 THEN <<>>
  ELSE <<Head(s)>> \o Unique(SelectSeq(Tail(s), LAMBDA x : x # Head(s)))

RECURSIVE InsertId(_, _)
InsertId(s, x) ==
  IF Len(s) = 0 THEN <<x>>
  ELSE IF x < Head(s) THEN <<x>> \o s
  ELSE <<Head(s)>> \o InsertId(Tail(s), x)

RECURSIVE SortedIds(_)
\* Itertools::sorted on ids or keys
SortedIds(s) ==
  IF Len(s) = 0 THEN <<>>
  ELSE InsertId(SortedIds(SubSeq(s, 1, Len(s) - 1)), s[Len(s)])

\* k_mer_map.into_par_iter().map(|seqs| seqs.into_iter().unique().sorted()..)
FinishKmerMap(m) == [k \in DOMAIN m |-> SortedIds(Unique(m[k]))]

RECURSIVE InsertPair(_, _)
InsertPair(s, x) ==
  IF Len(s) = 0 THEN <<x>>
  ELSE IF StrLess(x[1], Head(s)[1]) THEN <<x>> \o s
  ELSE <<Head(s)>> \o InsertPair(Tail(s), x)

RECURSIVE SortPairs(_)
\* The same stable sort, on the (lineage, sequence) pairs.
SortPairs(s) ==
  IF Len(s) = 0 THEN <<>>
  ELSE InsertPair(SortPairs(SubSeq(s, 1, Len(s) - 1)), s[Len(s)])

\* labels.into_iter().zip_eq(sequences)
ZipRows(ls, ss) == [i \in 1..Len(ls) |-> <<ls[i], ss[i]>>]

\* The sequences of the sorted rows.
SortedSequences(ls, ss) ==
  LET ps == SortPairs(ZipRows(ls, ss)) IN [i \in 1..Len(ps) |-> ps[i][2]]

\* Reference sequences: a repeated 8-mer, two sequences sharing an 8-mer, the
\* largest key, an ambiguity code (N = 15) ahead of a pure window, and a
\* sequence shorter than one window.
RefSeqPool ==
  { <<1, 1, 1, 1, 1, 1, 1, 1, 1>>,
    <<1, 1, 1, 1, 1, 1, 1, 1, 2>>,
    <<8, 8, 8, 8, 8, 8, 8, 8>>,
    <<1, 2, 4, 8, 15, 1, 2, 4, 8, 1, 2, 4, 8>>,
    <<1, 2, 4, 8>> }

\* The lineages of the rows when the index is what is looked at.
IndexLineagePool == { <<chA>>, <<chB>> }

(***************************************************************************)
(* The keys of a query (src/src/utils.rs).  A query is a sequence of the   *)
(* 2-bit codes the query parser yields (A = 0, C = 1, G = 2, T = 3).       *)
(***************************************************************************)
Min(S) == CHOOSE x \in S : \A y \in S : x <= y

RECURSIVE SetToSortedSeq(_)
\* k_mers.into_iter().sorted().collect_vec() on the HashSet
SetToSortedSeq(S) ==
  IF S = {} THEN <<>> ELSE <<Min(S)>> \o SetToSortedSeq(S \ {Min(S)})

RECURSIVE FirstKmer(_, _, _)
\* sequence[0..8].iter().enumerate().for_each(|(j, c)| k_mer |= (*c as u16) << (14 - j * 2))
FirstKmer(sequence, j, k_mer) ==
  IF j > KmerLen THEN k_mer
  ELSE FirstKmer(sequence, j + 1, BitOr(k_mer, Shl16(sequence[j], 14 - (j - 1) * 2)))

RECURSIVE RollKmers(_, _, _, _)
\* sequence[8..].iter().for_each(|c| { k_mer = (k_mer << 2) | *c as u16; k_mers.insert(k_mer) })
RollKmers(sequence, i, k_mer, k_mers) ==
  IF i > Len(sequence) THEN k_mers
  ELSE LET next == BitOr(Shl16(k_mer, 2), sequence[i])
       IN  RollKmers(sequence, i + 1, next, k_mers \cup {next})

\* The slice sequence[0..8] panics when the sequence has fewer than 8 items.
sequence_to_kmers(sequence) ==
  IF Len(sequence) < KmerLen THEN [panicked |-> TRUE, k_mers |-> <<>>]
  ELSE LET first == FirstKmer(sequence, 1, 0)
       IN  [panicked |-> FALSE,
            k_mers |-> SetToSortedSeq(RollKmers(sequence, KmerLen + 1, first, {first}))]

\* Longest query handed to sequence_to_kmers on its own.
MaxQueryLen == 10

\* The queries sequence_to_kmers is called on: all sequences of C and G up to
\* MaxQueryLen, and every 4-letter end of a 10-base query.
KmerInputs ==
  SeqsUpTo({1, 2}, MaxQueryLen)
    \cup { <<0, 3, 0, 3, 0, 3, 0, 3>> \o t : t \in SeqsUpTo({0, 1, 2, 3}, 2) }

(***************************************************************************)
(* The hit-probability engine (src/src/prob.rs).  The code works on        *)
(* logarithms of f64; the model works on the exact values: a probability   *)
(* is a numerator over a common denominator, NEG_INFINITY is the value 0.  *)
(* Rounding and underflow of f64 are outside the model.                    *)
(***************************************************************************)
RECURSIVE Binomial(_, _)
\* exp(ln_binomial(n, k)): 0 when k > n
Binomial(n, k) ==
  IF k > n THEN 0
  ELSE IF k = 0 THEN 1
  ELSE (Binomial(n - 1, k - 1) * n) \div k

RECURSIVE SumSeq(_)
SumSeq(s) == IF Len(s) = 0 THEN 0 ELSE Head(s) + SumSeq(Tail(s))

RECURSIVE ProdSeq(_)
ProdSeq(s) == IF Len(s) = 0 THEN 1 ELSE Head(s) * ProdSeq(Tail(s))

\* ln_binomial(total_num_k_mers as u64 + num_trials as u64 - 1, num_trials):
\* with both 0 the u64 subtraction overflows; a build with overflow checks
\* panics, any other wraps to u64::MAX, and ln_binomial(u64::MAX, 0) is 0.0.
num_possible_kmer_sets(total_num_k_mers, num_trials) ==
  IF total_num_k_mers + num_trials = 0 THEN 1
  ELSE Binomial(total_num_k_mers + num_trials - 1, num_trials)

\* The denominator the numerators below are over.
PmfDen(total_num_k_mers, num_trials) ==
  IF num_possible_kmer_sets(total_num_k_mers, num_trials) = 0 THEN 1
  ELSE num_possible_kmer_sets(total_num_k_mers, num_trials)

only_last_pmf_zero(total_num_k_mers, num_trials, num_intersections) ==
  IF num_intersections = total_num_k_mers THEN PmfDen(total_num_k_mers, num_trials)
  ELSE 0

\* only_last_pmf, as a numerator over PmfDen
only_last_pmf(total_num_k_mers, num_trials, num_intersections) ==
  IF num_intersections = total_num_k_mers THEN PmfDen(total_num_k_mers, num_trials)
  ELSE IF num_intersections = 0 THEN 0
  ELSE Binomial(num_intersections + num_trials - 1, num_trials)

PmfNumSwapped(total_num_k_mers, num_trials, num_intersections, i) ==
  IF num_intersections = total_num_k_mers
    THEN IF i = num_trials THEN PmfDen(total_num_k_mers, num_trials) ELSE 0
  ELSE IF num_intersections = 0
    THEN IF i = 0 THEN PmfDen(total_num_k_mers, num_trials) ELSE 0
  ELSE Binomial(total_num_k_mers - num_intersections + i - 1, i)
         * Binomial(num_intersections + num_trials - i - 1, num_trials - i)

\* iterative_pmfs_ln: entry i of the vector of one intersection size, as a
\* numerator over PmfDen
PmfNum(total_num_k_mers, num_trials, num_intersections, i) ==
  IF num_intersections = total_num_k_mers
    THEN IF i = num_trials THEN PmfDen(total_num_k_mers, num_trials) ELSE 0
  ELSE IF num_intersections = 0
    THEN IF i = 0 THEN PmfDen(total_num_k_mers, num_trials) ELSE 0
  ELSE Binomial(num_intersections + i - 1, i)
         * Binomial(total_num_k_mers - num_intersections + num_trials - i - 1,
                    num_trials - i)

\* num_possible_matches.zip_eq(num_impossible_matches): num_trials items
\* against num_trials - 1 items and the chained 0.0
ZipEqPanics(total_num_k_mers, num_trials, intersection_sizes) ==
  /\ num_trials = 0
  /\ \E r \in 1..Len(intersection_sizes) :
       intersection_sizes[r] # 0 /\ intersection_sizes[r] # total_num_k_mers

\* cmfs: the scan of the pmfs, entry i
CmfNum(total_num_k_mers, num_trials, num_intersections, i) ==
  SumSeq([j \in 1..(i + 1) |-> PmfNum(total_num_k_mers, num_trials, num_intersections, j - 1)])

\* cmf_prod_components[i]: count times the cmf of every distinct size, summed
\* in the logarithm
CmfProd(total_num_k_mers, num_trials, intersection_sizes, i) ==
  ProdSeq([r \in 1..Len(intersection_sizes) |->
             CmfNum(total_num_k_mers, num_trials, intersection_sizes[r], i)])

\* The sum over i of exp(p + prod_components - c), 0.0 where c or
\* prod_components is NEG_INFINITY; a numerator over PmfDen^Len(sizes)
HitNum(total_num_k_mers, num_trials, intersection_sizes, num_intersections) ==
  SumSeq([j \in 1..(num_trials + 1) |->
    LET c == CmfNum(total_num_k_mers, num_trials, num_intersections, j - 1)
        prod_components == CmfProd(total_num_k_mers, num_trials, intersection_sizes, j - 1)
    IN  IF c = 0 \/ prod_components = 0 THEN 0
        ELSE PmfNum(total_num_k_mers, num_trials, num_intersections, j - 1)
               * (prod_components \div c)])

EnginePanic(why) == [panicked |-> TRUE, why |-> why, hits |-> <<>>, den |-> 1, probs_sum |-> 0]

\* highest_hit_prob_per_reference.  hits are the unnormalized probabilities
\* over den; the vector returned is hits[r] / probs_sum.
highest_hit_prob_per_reference(total_num_k_mers, num_trials, intersection_sizes, overflow_checks) ==
  IF total_num_k_mers + num_trials = 0 /\ overflow_checks THEN EnginePanic("overflow")
  ELSE
    LET fast == \E r \in 1..Len(intersection_sizes) :
                  intersection_sizes[r] = total_num_k_mers
        hits == [r \in 1..Len(intersection_sizes) |->
                   IF fast
                   THEN only_last_pmf(total_num_k_mers, num_trials, intersection_sizes[r])
                   ELSE HitNum(total_num_k_mers, num_trials, intersection_sizes,
                               intersection_sizes[r])]
    IN  IF ~fast /\ ZipEqPanics(total_num_k_mers, num_trials, intersection_sizes)
          THEN EnginePanic("zip_eq")
        ELSE IF SumSeq(hits) <= 0 THEN EnginePanic("assert")
        ELSE [panicked |-> FALSE, why |-> "",
              hits |-> hits,
              den |-> IF fast THEN PmfDen(total_num_k_mers, num_trials)
                      ELSE PmfDen(total_num_k_mers, num_trials)^Len(intersection_sizes),
              probs_sum |-> SumSeq(hits)]

(***************************************************************************)
(* iterative_pmfs_ln step by step (src/src/prob.rs:121-170).  A logarithm  *)
(* stands as the fraction <<numerator, denominator>> it is the logarithm   *)
(* of; NEG_INFINITY is <<0, 1>>; a sum of logarithms is a product.         *)
(***************************************************************************)
RECURSIVE PossibleScan(_, _)
\* (1..=num_trials).scan(0.0, |sum, i| *sum += ln((s + i - 1) / i)): item i
PossibleScan(num_intersections, i) ==
  IF i = 0 THEN <<1, 1>>
  ELSE LET sum == PossibleScan(num_intersections, i - 1)
       IN  << sum[1] * (num_intersections + i - 1), sum[2] * i >>

RECURSIVE ImpossibleScan(_, _, _, _)
\* (1..num_trials).scan(impossible_init, |sum, i| *sum -= ln((total - s +
\* num_trials - i) / (num_trials - i + 1))): item i, impossible_init for 0
ImpossibleScan(total_num_k_mers, num_trials, num_intersections, i) ==
  IF i = 0
  THEN << Binomial(total_num_k_mers - num_intersections + num_trials - 1, num_trials), 1 >>
  ELSE LET sum == ImpossibleScan(total_num_k_mers, num_trials, num_intersections, i - 1)
       IN  << sum[1] * (num_trials - i + 1),
              sum[2] * (total_num_k_mers - num_intersections + num_trials - i) >>

\* num_impossible_matches: the scan over 1..num_trials chained with [0.0]
ImpossibleItems(total_num_k_mers, num_trials, num_intersections) ==
  [i \in 1..(IF num_trials = 0 THEN 0 ELSE num_trials - 1) |->
     ImpossibleScan(total_num_k_mers, num_trials, num_intersections, i)] \o << <<1, 1>> >>

\* The vector of one intersection size; zip_eq panics when its two sides
\* differ in length.
PmfVector(total_num_k_mers, num_trials, num_intersections) ==
  LET sets == num_possible_kmer_sets(total_num_k_mers, num_trials)
      possible == [i \in 1..num_trials |-> PossibleScan(num_intersections, i)]
      impossible == ImpossibleItems(total_num_k_mers, num_trials, num_intersections)
  IN  IF num_intersections = total_num_k_mers
        THEN [panicked |-> FALSE,
              pmf |-> [i \in 1..(num_trials + 1) |->
                         IF i = num_trials + 1 THEN <<1, 1>> ELSE <<0, 1>>]]
      ELSE IF num_intersections = 0
        THEN [panicked |-> FALSE,
              pmf |-> [i \in 1..(num_trials + 1) |-> IF i = 1 THEN <<1, 1>> ELSE <<0, 1>>]]
      ELSE IF Len(possible) # Len(impossible) THEN [panicked |-> TRUE, pmf |-> <<>>]
      ELSE [panicked |-> FALSE,
            pmf |-> << << ImpossibleScan(total_num_k_mers, num_trials, num_intersections, 0)[1],
                          sets >> >>
                    \o [i \in 1..num_trials |->
                          << possible[i][1] * impossible[i][1],
                             possible[i][2] * impossible[i][2] * sets >>]]

\* iterative_pmfs_ln: the vector of every key of the map, by key; a panic
\* for one key is a panic of the call.
iterative_pmfs_ln(total_num_k_mers, num_trials, sizes) ==
  [panicked |-> \E x \in sizes : PmfVector(total_num_k_mers, num_trials, x).panicked,
   pmfs |-> [x \in sizes |-> PmfVector(total_num_k_mers, num_trials, x).pmf]]

(***************************************************************************)
(* utils::sse_ordered_set_intersection_count (src/src/utils.rs:34-69).     *)
(* A 128-bit register is the sequence of the lanes loaded from the slice.  *)
(***************************************************************************)
\* _mm_loadu_si128 at index idx of the slice: the lanes that lie in it
LoadLanes(set, idx) == SubSeq(set, idx + 1, IF idx + 8 <= Len(set) THEN idx + 8 ELSE Len(set))

\* _popcnt32 of _mm_cmpestrm with EQUAL_ANY and BIT_MASK: the lanes of v_b
\* below lb that equal a lane of v_a below la
cmpestrm(v_a, la, v_b, lb) ==
  Cardinality({ j \in 1..lb : j <= Len(v_b)
                  /\ \E i \in 1..la : i <= Len(v_a) /\ v_a[i] = v_b[j] })

last_bulk_index(set) == (Len(set) \div 8) * 8

RECURSIVE SseBulk(_, _, _, _, _)
\* The while loop over the full blocks
SseBulk(set_a, set_b, idx_a, idx_b, count) ==
  IF idx_a < last_bulk_index(set_a) /\ idx_b < last_bulk_index(set_b)
  THEN LET v_a == LoadLanes(set_a, idx_a)
           v_b == LoadLanes(set_b, idx_b)
           a7 == v_a[8]
           b7 == v_b[8]
       IN  SseBulk(set_a, set_b,
                   idx_a + (IF a7 <= b7 THEN 8 ELSE 0),
                   idx_b + (IF a7 >= b7 THEN 8 ELSE 0),
                   count + cmpestrm(v_a, 8, v_b, 8))
  ELSE [idx_a |-> idx_a, idx_b |-> idx_b, count |-> count]

\* The last two loads read eight lanes where the loop stopped: past the end
\* of a slice that has fewer than eight elements left.
SseReadsPastEnd(set_a, set_b) ==
  LET bulk == SseBulk(set_a, set_b, 0, 0, 0)
  IN  Len(set_a) - bulk.idx_a < 8 \/ Len(set_b) - bulk.idx_b < 8

sse_ordered_set_intersection_count(set_a, set_b) ==
  LET bulk == SseBulk(set_a, set_b, 0, 0, 0)
      remainder_a == Len(set_a) - last_bulk_index(set_a)
      remainder_b == Len(set_b) - last_bulk_index(set_b)
  IN  bulk.count + cmpestrm(LoadLanes(set_a, bulk.idx_a), remainder_a,
                            LoadLanes(set_b, bulk.idx_b), remainder_b)

\* Bound of the generated sequences, and the sequences the calls draw from:
\* the two of test_fast_intersection, a run and the even numbers, with all
\* their prefixes.
MaxSetLen == 17
SseBases ==
  { <<0, 1, 4, 5, 8, 12, 16, 17, 18, 29, 33, 43, 55, 61, 75, 85, 90>>,
    <<0, 1, 2, 5, 9, 12, 13, 17, 18, 31, 34, 43, 55, 61, 75, 85, 88, 90, 100>>,
    [i \in 1..MaxSetLen |-> i - 1],
    [i \in 1..MaxSetLen |-> 2 * (i - 1)] }
SsePool == UNION { { SubSeq(s, 1, n) : n \in 0..Len(s) } : s \in SseBases }

\* Bounds of the calls of the engine on its own.
MaxTotal == 4
MaxTrials == 3
MaxRefs == 3

\* Non-empty vectors of intersection sizes, every size at most total.
SizeVectors(total) == SeqsUpTo(0..total, MaxRefs) \ { <<>> }

(***************************************************************************)
(* The lineage evaluator (src/src/lineage.rs).  The probability of         *)
(* reference r is nums[r + 1] / den, exactly; a confidence value is a      *)
(* number of hundredths; an expected value is the size of a range, over    *)
(* num_tips.                                                               *)
(***************************************************************************)
\* 10_u32.pow(F64_OUTPUT_ACCURACY)
rounding_factor == 100

\* Lineage::get_confidence, as a numerator over den
get_confidence(ns, nums, n) ==
  SumSeq([j \in 1..(ns[n].hi - ns[n].lo) |-> nums[ns[n].lo + j]])

\* (x * rounding_factor).round(): f64::round rounds half away from zero
Round(m, den) == (2 * rounding_factor * m + den) \div (2 * den)

\* node.children, in the order of the vector
ChildSeq(ns, n) == SetToSortedSeq(Children(ns, n))

RECURSIVE MaxBy(_, _, _, _, _)
\* Iterator::max_by: of several maximal elements the last one
MaxBy(ns, nums, kids, i, best) ==
  IF i > Len(kids) THEN best
  ELSE MaxBy(ns, nums, kids, i + 1,
             IF get_confidence(ns, nums, kids[i]) >= get_confidence(ns, nums, best)
             THEN kids[i] ELSE best)

\* What is pushed on confidence_vectors; idx -1 stands for a panic.
VectorRow(idx, conf, expected) == [idx |-> idx, conf |-> conf, expected |-> expected]

PanicRow == VectorRow(0 - 1, <<>>, <<>>)

RECURSIVE Collapse(_, _, _, _, _)
\* The while loop of the collapsed row: max_by(..).unwrap() panics on a node
\* without children.
Collapse(ns, nums, current_node, conf_prefix, expected_conf_prefix) ==
  IF ns[current_node].node_type = "Inner"
  THEN IF Children(ns, current_node) = {} THEN PanicRow
       ELSE LET kids == ChildSeq(ns, current_node)
                next == MaxBy(ns, nums, kids, 2, kids[1])
            IN  Collapse(ns, nums, next,
                         Append(conf_prefix, rounding_factor \div rounding_factor),
                         Append(expected_conf_prefix, ns[next].hi - ns[next].lo))
  ELSE VectorRow(ns[current_node].lo, conf_prefix, expected_conf_prefix)

RECURSIVE eval_recurse(_, _, _, _, _, _)
RECURSIVE EvalChildren(_, _, _, _, _, _, _)
\* The loop over node.children from the i-th child on: the rows pushed and
\* whether every child was skipped.
EvalChildren(ns, nums, den, kids, i, confidence_prefix, expected_confidence_prefix) ==
  IF i > Len(kids) THEN [rows |-> <<>>, no_child_significant |-> TRUE]
  ELSE
    LET c == kids[i]
        child_conf == Round(get_confidence(ns, nums, c), den)
        rest == EvalChildren(ns, nums, den, kids, i + 1, confidence_prefix,
                             expected_confidence_prefix)
        conf_prefix == Append(confidence_prefix, child_conf)
        expected_conf_prefix == Append(expected_confidence_prefix, ns[c].hi - ns[c].lo)
    IN  IF child_conf = 0 THEN rest
        ELSE [rows |-> eval_recurse(ns, nums, den, c, conf_prefix, expected_conf_prefix)
                         \o (IF ns[c].node_type = "Taxon"
                             THEN << VectorRow(ns[c].lo, conf_prefix, expected_conf_prefix) >>
                             ELSE <<>>)
                         \o rest.rows,
              no_child_significant |-> FALSE]

\* Lineage::eval_recurse: the rows it pushes on confidence_vectors, in order
eval_recurse(ns, nums, den, node, confidence_prefix, expected_confidence_prefix) ==
  LET loop == EvalChildren(ns, nums, den, ChildSeq(ns, node), 1, confidence_prefix,
                           expected_confidence_prefix)
  IN  IF loop.no_child_significant /\ ns[node].node_type = "Inner"
      THEN loop.rows \o << Collapse(ns, nums, node, confidence_prefix,
                                    expected_confidence_prefix) >>
      ELSE loop.rows

RECURSIVE InsertRow(_, _)
\* x goes ahead of the first row whose confidence vector is smaller.
InsertRow(s, x) ==
  IF Len(s) = 0 THEN <<x>>
  ELSE IF StrLess(Head(s).conf, x.conf) THEN <<x>> \o s
  ELSE <<Head(s)>> \o InsertRow(Tail(s), x)

RECURSIVE SortRows(_)
\* sorted_by(|a, b| b.1.iter().partial_cmp(a.1.iter()).unwrap()), stable
SortRows(s) ==
  IF Len(s) = 0 THEN <<>>
  ELSE InsertRow(SortRows(SubSeq(s, 1, Len(s) - 1)), s[Len(s)])

\* expected_conf_values.iter().find_position(|&&x| 1.0 - x > EPSILON): the
\* positions of the values below 1, counted from 0
BelowOne(expected, num_tips) == { i \in 1..Len(expected) : expected[i] < num_tips }

\* Some(position) is <<position>>, None is <<>>
StartIndex(expected, num_tips) ==
  IF BelowOne(expected, num_tips) = {} THEN <<>>
  ELSE << Min(BelowOne(expected, num_tips)) - 1 >>

EvalPanic(why) == [panicked |-> TRUE, why |-> why, rows |-> <<>>]

\* utils::euclidean_distance_l1(&conf_values[start_index..],
\* &expected_conf_values[start_index..]): the signal stands as its arguments
LocalSignal(conf, expected, start_index) ==
  [conf |-> SubSeq(conf, start_index + 1, Len(conf)),
   expected |-> SubSeq(expected, start_index + 1, Len(expected))]

\* utils::euclidean_norm(confidence_values.map(|v| v - 1.0 / num_tips)): the
\* signal stands as its arguments
GlobalSignal(nums, den, num_tips) == [nums |-> nums, den |-> den, num_tips |-> num_tips]

\* Lineage::new(..).evaluate().  A signal is the arguments of the distance
\* it is computed with.
evaluate(ns, lineages, num_tips, nums, den) ==
  LET vectors == SortRows(eval_recurse(ns, nums, den, 1, <<>>, <<>>))
  IN  IF \E i \in 1..Len(vectors) : vectors[i] = PanicRow THEN EvalPanic("max_by")
      ELSE IF \E i \in 1..Len(vectors) : StartIndex(vectors[i].expected, num_tips) = <<>>
        THEN EvalPanic("find_position")
      ELSE [panicked |-> FALSE, why |-> "",
            rows |-> [i \in 1..Len(vectors) |->
                        [idx |-> vectors[i].idx,
                         lineage |-> lineages[vectors[i].idx + 1],
                         confidence_values |-> vectors[i].conf,
                         expected |-> vectors[i].expected,
                         start_index |-> StartIndex(vectors[i].expected, num_tips)[1],
                         local_signal |->
                           LocalSignal(vectors[i].conf, vectors[i].expected,
                                       StartIndex(vectors[i].expected, num_tips)[1]),
                         global_signal |-> GlobalSignal(nums, den, num_tips)]]]

\* A probability is a number of thousandths when evaluate is called on its own.
ProbUnit == 1000

\* The probabilities a reference may have: nothing, below and above half a
\* hundredth, about a half, nearly all, all.
ProbValues == {0, 4, 8, 492, 496, 500, 992, 996, 1000}

\* The normalized probability vectors over n references.
ProbVectors(n) == { v \in [1..n -> ProbValues] : SumSeq(v) = ProbUnit }

(***************************************************************************)
(* The closure the dispatcher runs on every chunk (src/src/raxtax.rs).     *)
(***************************************************************************)
KeepBuffer(buffer) == buffer

\* intersect_buffer.fill(0)
FillZero(buffer) == [r \in 1..Len(buffer) |-> 0]

\* tree.sequences.get(query_sequence).unwrap_or(&empty_vec): the ids of the
\* rows whose encoded sequence is the encoded query, in row order
ExactMatches(seqs, query_sequence) ==
  SelectSeq([r \in 1..Len(seqs) |-> r - 1], LAMBDA id : seqs[id + 1] = query_sequence)

\* lineage.rsplit_once(','): Some((head, tail)) is <<head>>, None is <<>>
RsplitOnceHead(lineage) ==
  LET commas == { i \in 1..Len(lineage) : lineage[i] = chComma }
  IN  IF commas = {} THEN <<>>
      ELSE << SubSeq(lineage, 1, (CHOOSE i \in commas : \A j \in commas : j <= i) - 1) >>

RECURSIVE AllEqualFrom(_, _, _, _)
\* Itertools::all_equal on the mapped ids from the i-th on: every element is
\* unwrapped as it is reached, the first one that differs ends the walk.
AllEqualFrom(lineages, exact_matches, i, first) ==
  IF i > Len(exact_matches) THEN "equal"
  ELSE LET head == RsplitOnceHead(lineages[exact_matches[i] + 1])
       IN  IF head = <<>> THEN "panic"
           ELSE IF i > 1 /\ head # first THEN "differ"
           ELSE AllEqualFrom(lineages, exact_matches, i + 1, head)

RECURSIVE AddPosting(_, _, _)
\* for_each(|sequence_id| *intersect_buffer.get_unchecked_mut(id) += 1): ids
\* below the length of the buffer; an id beyond it writes out of bounds
AddPosting(buffer, ids, j) ==
  IF j > Len(ids) THEN buffer
  ELSE AddPosting([buffer EXCEPT ![ids[j] + 1] = U16(@ + 1)], ids, j + 1)

RECURSIVE CountKmers(_, _, _, _)
\* for query_kmer in &k_mers { tree.k_mer_map[*query_kmer as usize]... }
CountKmers(buffer, m, k_mers, i) ==
  IF i > Len(k_mers) THEN buffer
  ELSE CountKmers(AddPosting(buffer, PostingList(m, k_mers[i]), 1), m, k_mers, i + 1)

RECURSIVE ZeroExact(_, _, _)
\* for &id in exact_matches { *intersect_buffer.get_unchecked_mut(id) = 0 }
ZeroExact(buffer, exact_matches, j) ==
  IF j > Len(exact_matches) THEN buffer
  ELSE ZeroExact([buffer EXCEPT ![exact_matches[j] + 1] = 0], exact_matches, j + 1)

\* The number of levels of a lineage: its commas and one.
NumLevels(lineage) == Cardinality({ i \in 1..Len(lineage) : lineage[i] = chComma }) + 1

ExactRowBest(lineages, idx, best) == best

\* The single row that stands for an only exact match: confidence 1.0 at
\* every level, the signals of the best row.
ExactRow(lineages, idx, best) ==
  [best EXCEPT !.idx = idx,
               !.lineage = lineages[idx + 1],
               !.confidence_values = [l \in 1..NumLevels(lineages[idx + 1]) |-> rounding_factor]]

\* The rows of the database when queries are run against it.
QueryLineagePool == { <<chA, chComma, chB>>, <<chB>> }
QueryRefPool == { <<1, 1, 1, 1, 1, 1, 1, 1, 1>>, <<1, 1, 1, 1, 1, 1, 1, 1, 2>> }

\* Queries: two keys of which the references hold one or both, a single key
\* no reference holds in a sequence whose bytes are those of a reference,
\* and a query shorter than one window.
QuerySeqPool ==
  { <<0, 0, 0, 0, 0, 0, 0, 0, 1>>,
    <<1, 1, 1, 1, 1, 1, 1, 1, 1>>,
    <<0, 1, 2, 3>> }

\* Most rows of the database queries are run against.
QueryRows == 2

(***************************************************************************)
(* The run: files under the output prefix, command line, checkpoint.       *)
(***************************************************************************)
FastaPath == "X.fasta"          \* a reference FASTA supplied by the user
UserBinPath == "U.bin"          \* a pre-built binary index supplied by the user
GeneratedBinPath == "out/X.bin"     \* prefix/<database file name>.bin
GeneratedUBinPath == "out/U.bin"

DbPaths == {FastaPath, UserBinPath, GeneratedBinPath, GeneratedUBinPath}
UserDbPaths == {FastaPath, UserBinPath}

\* Args (clap): the options that reach get_output, main and raxtax.
DefaultArgs ==
  [database_path |-> FastaPath, tsv |-> FALSE, binning |-> FALSE, skip_exact_matches |-> FALSE,
   raw_confidence |-> FALSE, redo |-> FALSE, clean |-> FALSE, skip_db |-> FALSE,
   only_db |-> FALSE, threads |-> NumWorkers]

\* The command lines an invocation is drawn from.
ArgsSet ==
  { DefaultArgs,
    [DefaultArgs EXCEPT !.tsv = TRUE],
    [DefaultArgs EXCEPT !.skip_exact_matches = TRUE],
    [DefaultArgs EXCEPT !.raw_confidence = TRUE],
    [DefaultArgs EXCEPT !.redo = TRUE],
    [DefaultArgs EXCEPT !.clean = TRUE],
    [DefaultArgs EXCEPT !.skip_db = TRUE],
    [DefaultArgs EXCEPT !.skip_db = TRUE, !.clean = TRUE],
    [DefaultArgs EXCEPT !.database_path = UserBinPath],
    [DefaultArgs EXCEPT !.only_db = TRUE],
    [DefaultArgs EXCEPT !.threads = 1] }

\* The labels of the queries of the query file, in file order.
QueryFile == [i \in 1..NumQueries |-> i]

\* Number of lineage rows reported for a query (one output line each).
NumRows(q) == IF q = 1 THEN 2 ELSE 1

\* EvaluationResult::get_output_string: "<query_label>\t<lineage>\t...".  What
\* follows the label depends on the index and on the two result flags.
ResultLine(q, row, content, a) ==
  [tab |-> TRUE, query |-> q, row |-> row, content |-> content,
   skip |-> a.skip_exact_matches, raw |-> a.raw_confidence]

\* A line without any tab: the empty line.
EmptyLine ==
  [tab |-> FALSE, query |-> 0, row |-> 0, content |-> 0, skip |-> FALSE, raw |-> FALSE]

\* The rows of one query, joined with newlines, as one String.
ResultEntry(q, content, a) == [r \in 1..NumRows(q) |-> ResultLine(q, r, content, a)]

NoFile == [exists |-> FALSE, lines |-> <<>>]
NoDb == [stamp |-> 0, content |-> 0]
NoCheckpointFile ==
  [state |-> "absent", db_path |-> FastaPath, db_stamp |-> 0,
   raw_confidence |-> FALSE, skip_exact_matches |-> FALSE, tsv |-> FALSE]

\* The databases the user holds before the first invocation.
UserDb(p) ==
  IF p = FastaPath THEN [stamp |-> 1, content |-> 1]
  ELSE IF p = UserBinPath THEN [stamp |-> 1, content |-> 9]
  ELSE NoDb

\* create_file: append keeps the content, truncate empties it; both create.
create_file(f, append) ==
  IF append /\ f.exists THEN f ELSE [exists |-> TRUE, lines |-> <<>>]

\* writeln!(file, "{}", text) where text is a list of lines joined by "\n".
\* The join of no lines is the empty string, one empty line once terminated.
writeln(f, text) ==
  [f EXCEPT !.lines = @ \o (IF text = <<>> THEN <<EmptyLine>> ELSE text)]

RECURSIVE SeqToSet(_)
SeqToSet(s) == IF Len(s) = 0 THEN {} ELSE {Head(s)} \cup SeqToSet(Tail(s))

\* FileFingerprint::new succeeds when the file has metadata
CanFingerprint(d, path) == d.db[path].stamp # 0

\* Checkpoint::new
NewCheckpoint(a, d) ==
  [db_path |-> a.database_path, db_stamp |-> d.db[a.database_path].stamp,
   raw_confidence |-> a.raw_confidence, skip_exact_matches |-> a.skip_exact_matches,
   tsv |-> a.tsv, processed_queries |-> {}]

\* serde: processed_queries is skipped
CheckpointJson(c) ==
  [state |-> "ok", db_path |-> c.db_path, db_stamp |-> c.db_stamp,
   raw_confidence |-> c.raw_confidence, skip_exact_matches |-> c.skip_exact_matches,
   tsv |-> c.tsv]

\* Args::checkpoint_valid
checkpoint_valid(a, c, d) ==
  /\ CanFingerprint(d, c.db_path)
  /\ a.tsv = c.tsv
  /\ a.raw_confidence = c.raw_confidence
  /\ a.skip_exact_matches = c.skip_exact_matches
  /\ d.db[c.db_path].stamp = c.db_stamp

\* check_incomplete_output: the lines kept
RetainedLines(lines, processed) ==
  LET Keep(l) == l.tab /\ l.query \in processed
  IN  SelectSeq(lines, Keep)

\* check_incomplete_output: needs_rewrite
NeedsRewrite(lines, processed) ==
  \E i \in 1..Len(lines) : lines[i].tab /\ lines[i].query \notin processed

\* check_incomplete_output on an existing file
check_incomplete_output(f, processed) ==
  IF NeedsRewrite(f.lines, processed)
  THEN writeln([exists |-> TRUE, lines |-> <<>>], RetainedLines(f.lines, processed))
  ELSE f

\* Args::get_output, the choice of the checkpoint (io.rs:236-259).  ok = FALSE
\* is the early return with an error.
LoadCheckpoint(a, d) ==
  IF ~a.redo /\ d.ckp.state # "absent" THEN
    IF d.ckp.state = "corrupt" THEN
      [ok |-> CanFingerprint(d, a.database_path), disk |-> d, loaded |-> FALSE,
       checkpoint |-> NewCheckpoint(a, d), reports |-> {"Failed to read checkpoint!"}]
    ELSE IF checkpoint_valid(a, d.ckp, d) THEN
      LET processed == SeqToSet(d.prog.lines)
          d1 == [d EXCEPT !.out = check_incomplete_output(d.out, processed)]
          d2 == [d1 EXCEPT !.tsv = check_incomplete_output(d.tsv, processed)]
          c == [db_path |-> d.ckp.db_path, db_stamp |-> d.ckp.db_stamp,
                raw_confidence |-> d.ckp.raw_confidence,
                skip_exact_matches |-> d.ckp.skip_exact_matches,
                tsv |-> d.ckp.tsv, processed_queries |-> processed]
      IN  IF ~d.prog.exists \/ ~d.out.exists
          THEN [ok |-> FALSE, disk |-> d, loaded |-> FALSE, checkpoint |-> c, reports |-> {}]
          ELSE IF ~a.tsv
          THEN [ok |-> TRUE, disk |-> d1, loaded |-> TRUE, checkpoint |-> c, reports |-> {}]
          ELSE IF ~d.tsv.exists
          THEN [ok |-> FALSE, disk |-> d1, loaded |-> FALSE, checkpoint |-> c, reports |-> {}]
          ELSE [ok |-> TRUE, disk |-> d2, loaded |-> TRUE, checkpoint |-> c, reports |-> {}]
    ELSE
      [ok |-> CanFingerprint(d, a.database_path), disk |-> d, loaded |-> FALSE,
       checkpoint |-> NewCheckpoint(a, d),
       reports |-> IF CanFingerprint(d, d.ckp.db_path) THEN {}
                   ELSE {"Could not verify checkpoint, starting from scratch!"}]
  ELSE
    [ok |-> CanFingerprint(d, a.database_path), disk |-> d, loaded |-> FALSE,
     checkpoint |-> NewCheckpoint(a, d), reports |-> {}]

\* Args::get_output, after the checkpoint (io.rs:260-297)
OpenOutputs(a, d) ==
  IF d.dir /\ d.ckp.state = "absent" /\ ~a.redo
  THEN [ok |-> FALSE, disk |-> d]
  ELSE [ok |-> TRUE,
        disk |-> [d EXCEPT !.dir = TRUE,
                           !.tsv = IF a.tsv THEN create_file(@, ~a.redo) ELSE @,
                           !.binning = IF a.binning THEN create_file(@, ~a.redo) ELSE @,
                           !.out = create_file(@, ~a.redo),
                           !.prog = create_file(@, ~a.redo)]]

\* Args::get_output
get_output(a, d) ==
  LET l == LoadCheckpoint(a, d)
      o == OpenOutputs(a, l.disk)
  IN  IF ~l.ok THEN [l EXCEPT !.reports = @ \cup {"get_output"}]
      ELSE [ok |-> o.ok, disk |-> o.disk, loaded |-> l.loaded /\ o.ok,
            checkpoint |-> l.checkpoint,
            reports |-> l.reports \cup (IF o.ok THEN {} ELSE {"get_output"})]

\* Args::get_db_output: the path of the binary index, named after
\* args.database_path
DbOutputPath(a) ==
  IF a.database_path = FastaPath THEN GeneratedBinPath ELSE GeneratedUBinPath

\* parse_reference_fasta_file: a FASTA is parsed and the index built
\* (store_db = true), a binary index is loaded as it is (store_db = false).
StoreDb(path) == path = FastaPath

\* parse_query_fasta_file(query_file, &checkpoint.processed_queries): the
\* queries of the file that are not yet done, in file order.
PendingQueries(processed) ==
  LET Pending(q) == q \notin processed
  IN  SelectSeq(QueryFile, Pending)

\* The least chunk size of main.rs:123
ChunkFloor == 100

\* Most pending queries and most threads the chunk size is computed for.
MaxPending == 3100
MaxThreads == 3

ChunkSizeCeil(n, n_threads, floor) ==
  IF n_threads = 1 THEN n
  ELSE LET c == (n + n_threads * 10 - 1) \div (n_threads * 10)
       IN  IF c > floor THEN c ELSE floor

\* main.rs:120-124 with the floor of the chunk size as a parameter
ChunkSizeFor(n, n_threads, floor) ==
  IF n_threads = 1 THEN n
  ELSE LET c == (n \div (n_threads * 10)) + 1
       IN  IF c > floor THEN c ELSE floor

\* par_chunks(chunk_size): number of chunks and the queries of chunk k
NumChunks(n, cs) == IF n = 0 THEN 0 ELSE ((n - 1) \div cs) + 1
ChunkLen(n, cs, k) == IF k * cs <= n THEN cs ELSE n - (k - 1) * cs

\* utils::get_results_binning: one line "<query_label>\t<best_bin>\t<score>",
\* which depends on the query and the index.
get_results_binning(q, content) == << [tab |-> TRUE, query |-> q, content |-> content] >>

\* ResultsToPrint::new as built in raxtax.rs:111-114
Message(q, content, a) ==
  [query |-> q, primary |-> ResultEntry(q, content, a),
   has_tsv |-> a.tsv,
   tsv |-> IF a.tsv THEN ResultEntry(q, content, a) ELSE <<>>,
   binning |-> IF a.binning THEN get_results_binning(q, content) ELSE <<>>]

\* The stage of the writer loop that follows a stage (main.rs:128-134).
NextStage(stage) ==
  IF stage = "tsv" THEN "primary"
  ELSE IF stage = "primary" THEN "progress"
  ELSE "recv"

\* The first stage for a received message: tsv_output is Some iff --tsv.
FirstStage(a) == IF a.tsv THEN "tsv" ELSE "primary"

\* The writer loop with the binning output: its line is written after the TSV
\* entry and before the primary entry, when --binning is given.
StageAfter(stage, a) ==
  IF stage = "tsv" /\ a.binning THEN "binning"
  ELSE IF stage = "binning" THEN "primary"
  ELSE NextStage(stage)

StageFirst(a) == IF ~a.tsv /\ a.binning THEN "binning" ELSE FirstStage(a)

\* Checkpoint::cleanup: three remove_file calls, the first error returns.
cleanup(c, d) ==
  IF d.ckp.state = "absent" THEN [disk |-> d, removed |-> {}, ok |-> FALSE]
  ELSE LET d1 == [d EXCEPT !.ckp = NoCheckpointFile]
       IN  IF ~d1.prog.exists THEN [disk |-> d1, removed |-> {"raxtax.json"}, ok |-> FALSE]
           ELSE LET d2 == [d1 EXCEPT !.prog = NoFile]
                IN  IF d2.db[c.db_path].stamp = 0
                    THEN [disk |-> d2, removed |-> {"raxtax.json", "raxtax.ckp"}, ok |-> FALSE]
                    ELSE [disk |-> [d2 EXCEPT !.db[c.db_path] = NoDb],
                          removed |-> {"raxtax.json", "raxtax.ckp", c.db_path},
                          ok |-> TRUE]

VARIABLES
  labels,          \* Tree::new: the lineages of the rows, in input order
  sorted,          \* lineage_sequence_pairs after the sort
  root,            \* the nodes of the trie
  confidence_idx,  \* the running reference id
  num_tips,        \* Tree.num_tips
  tpc,             \* position of Tree::new: "sort", "rows", "finish", "done"
  sequences,       \* Tree::new: the sequences of the rows, in input order
  sorted_seqs,     \* the sequences of lineage_sequence_pairs after the sort
  k_mer_map        \* the posting lists

treeVars == <<labels, sorted, root, confidence_idx, num_tips, tpc,
              sequences, sorted_seqs, k_mer_map>>

VARIABLES
  disk,        \* the files: output prefix and databases
  pc,          \* position of main: none, opened, ready, dispatch, returned, exited, killed
  args,        \* the command line of the current invocation
  checkpoint,  \* the Checkpoint held by main
  loaded,      \* get_output took the checkpoint from the checkpoint file
  reports,     \* what report_error and the error arms printed in this invocation
  exitcode,    \* the exit code of the process
  queries,     \* the parsed queries handed to raxtax
  chunk_size,
  pos,         \* per chunk, the number of its queries already processed
  chan,        \* the unbounded channel
  connected,   \* the receiver is alive
  wpc,         \* writer thread: idle, recv, tsv, binning, primary, progress, ok, err
  wmsg,        \* the message the writer is writing
  sendErr,     \* a worker's send returned an error
  panicked,    \* a worker panicked
  ok,          \* the Result raxtax returned: none, Ok, Err
  runs,        \* invocations so far
  hist,        \* command line and end of the earlier invocations
  tampered,    \* a file was changed from outside the tool
  pre,         \* primary, TSV, checkpoint file as get_output found them
  base,        \* lengths of the output files when the writer was spawned
  sentLog,     \* the labels sent on the channel, in order
  failedAt,    \* the number of labels sent when the first worker failed, else -1
  removed      \* the paths removed by cleanup in this invocation

fileVars == <<disk>>
mainVars == <<pc, args, checkpoint, loaded, reports, exitcode, runs, hist, tampered, pre, removed>>
dispatchVars == <<queries, chunk_size, pos, sendErr, panicked, ok, sentLog, failedAt, base>>
writerVars == <<chan, connected, wpc, wmsg>>
runVars == <<fileVars, mainVars, dispatchVars, writerVars>>

VARIABLES
  call,        \* the arguments of a function called on its own
  ret,         \* what that call returned
  workers      \* raxtax: the state of the closure of every chunk

calcVars == <<call, ret, workers>>

vars == <<treeVars, runVars, calcVars>>

\* No call has been made.
NoCall == [fn |-> "none"]

CalcIdle ==
  /\ call = NoCall
  /\ ret = NoCall
  /\ workers = <<>>

NoMessage ==
  [query |-> 0, primary |-> <<>>, has_tsv |-> FALSE, tsv |-> <<>>, binning |-> <<>>]

\* No invocation yet: an empty output prefix, the user's databases in place.
RunInit ==
  /\ disk = [dir |-> FALSE, ckp |-> NoCheckpointFile, out |-> NoFile, tsv |-> NoFile,
             binning |-> NoFile, prog |-> NoFile,
             db |-> [p \in DbPaths |-> UserDb(p)]]
  /\ pc = "none"
  /\ args = DefaultArgs
  /\ checkpoint = NewCheckpoint(DefaultArgs, disk)
  /\ loaded = FALSE
  /\ reports = {}
  /\ exitcode = "none"
  /\ queries = <<>>
  /\ chunk_size = 0
  /\ pos = <<>>
  /\ chan = <<>>
  /\ connected = FALSE
  /\ wpc = "idle"
  /\ wmsg = NoMessage
  /\ sendErr = FALSE
  /\ panicked = FALSE
  /\ ok = "none"
  /\ runs = 0
  /\ hist = <<>>
  /\ tampered = FALSE
  /\ pre = [out |-> <<>>, tsv |-> <<>>, ckp |-> NoCheckpointFile]
  /\ base = [out |-> 0, tsv |-> 0, prog |-> 0]
  /\ sentLog = <<>>
  /\ failedAt = -1
  /\ removed = {}

\* No tree under construction.
TreeIdle ==
  /\ labels = <<>>
  /\ sorted = <<>>
  /\ root = << NewNode(RootLabel, 0, "Inner", 0) >>
  /\ confidence_idx = 0
  /\ num_tips = 0
  /\ tpc = "done"
  /\ sequences = <<>>
  /\ sorted_seqs = <<>>
  /\ k_mer_map = <<>>

TreeInit ==
  /\ RunInit
  /\ CalcIdle
  /\ labels \in SeqsUpTo(LineagePool, MaxRows)
  /\ sorted = <<>>
  /\ root = << NewNode(RootLabel, 0, "Inner", 0) >>
  /\ confidence_idx = 0
  /\ num_tips = 0
  /\ tpc = "sort"
  /\ sequences = [i \in 1..Len(labels) |-> <<1, 1, 1, 1, 1, 1, 1, 1, 1>>]
  /\ sorted_seqs = <<>>
  /\ k_mer_map = <<>>

\* Tree::new on rows whose sequences vary.
IndexInit ==
  /\ RunInit
  /\ CalcIdle
  /\ \E n \in 0..MaxRows :
        /\ labels \in [1..n -> IndexLineagePool]
        /\ sequences \in [1..n -> RefSeqPool]
  /\ sorted = <<>>
  /\ root = << NewNode(RootLabel, 0, "Inner", 0) >>
  /\ confidence_idx = 0
  /\ num_tips = 0
  /\ tpc = "sort"
  /\ sorted_seqs = <<>>
  /\ k_mer_map = <<>>

TreeSort ==
  /\ tpc = "sort"
  /\ sorted' = SortLineages(labels)
  /\ sorted_seqs' = SortedSequences(labels, sequences)
  /\ tpc' = "rows"
  /\ UNCHANGED <<labels, sequences, root, confidence_idx, num_tips, k_mer_map, runVars, calcVars>>

\* One row of the map over the sorted rows; rows are taken in order.
TreeInsertRow ==
  /\ tpc = "rows"
  /\ confidence_idx < Len(sorted)
  /\ LET r == InsertLineage(root, confidence_idx, sorted[confidence_idx + 1])
     IN  /\ root' = r.nodes
         /\ confidence_idx' = r.cidx
  /\ k_mer_map' = PushWindows(k_mer_map, confidence_idx, sorted_seqs[confidence_idx + 1], 1)
  /\ UNCHANGED <<labels, sequences, sorted, sorted_seqs, num_tips, tpc, runVars, calcVars>>

TreeFinish ==
  /\ tpc = "rows"
  /\ confidence_idx = Len(sorted)
  /\ root' = [root EXCEPT ![1].hi = confidence_idx]
  /\ num_tips' = confidence_idx
  /\ k_mer_map' = FinishKmerMap(k_mer_map)
  /\ tpc' = "done"
  /\ UNCHANGED <<labels, sequences, sorted, sorted_seqs, confidence_idx, runVars, calcVars>>

TreeNext == TreeSort \/ TreeInsertRow \/ TreeFinish

SpecTree == TreeInit /\ [][TreeNext]_vars

SpecIndex == IndexInit /\ [][TreeNext]_vars

(***************************************************************************)
(* utils::sequence_to_kmers called on its own.                             *)
(***************************************************************************)
KmersInit ==
  /\ RunInit
  /\ TreeIdle
  /\ call \in { [fn |-> "sequence_to_kmers", sequence |-> q] : q \in KmerInputs }
  /\ ret = NoCall
  /\ workers = <<>>

KmersCall ==
  /\ call.fn = "sequence_to_kmers"
  /\ ret = NoCall
  /\ ret' = [fn |-> "sequence_to_kmers"] @@ sequence_to_kmers(call.sequence)
  /\ UNCHANGED <<call, workers, treeVars, runVars>>

SpecKmers == KmersInit /\ [][KmersCall]_vars

(***************************************************************************)
(* prob::highest_hit_prob_per_reference called on its own.                 *)
(***************************************************************************)
ProbInit ==
  /\ RunInit
  /\ TreeIdle
  /\ call \in { [fn |-> "highest_hit_prob_per_reference", total_num_k_mers |-> t,
                  num_trials |-> n, intersection_sizes |-> v, overflow_checks |-> b] :
                 t \in 0..MaxTotal, n \in 0..MaxTrials,
                 v \in SeqsUpTo(0..MaxTotal, MaxRefs), b \in BOOLEAN }
  /\ call.intersection_sizes \in SizeVectors(call.total_num_k_mers)
  /\ ret = NoCall
  /\ workers = <<>>

ProbCall ==
  /\ call.fn = "highest_hit_prob_per_reference"
  /\ ret = NoCall
  /\ ret' = [fn |-> "highest_hit_prob_per_reference"]
              @@ highest_hit_prob_per_reference(call.total_num_k_mers, call.num_trials,
                                                call.intersection_sizes, call.overflow_checks)
  /\ UNCHANGED <<call, workers, treeVars, runVars>>

SpecProb == ProbInit /\ [][ProbCall]_vars

(***************************************************************************)
(* Lineage::evaluate called on the tree Tree::new has built.               *)
(***************************************************************************)
EvalCall ==
  /\ tpc = "done"
  /\ call = NoCall
  /\ \E v \in ProbVectors(num_tips) :
        /\ call' = [fn |-> "evaluate", confidence_values |-> v]
        /\ ret' = [fn |-> "evaluate"] @@ evaluate(root, sorted, num_tips, v, ProbUnit)
  /\ UNCHANGED <<workers, treeVars, runVars>>

EvalNext == TreeNext \/ EvalCall

SpecEval == TreeInit /\ [][EvalNext]_vars

(***************************************************************************)
(* raxtax::raxtax on the tree Tree::new has built.  The channel and its    *)
(* writer are those of the run below; here a send appends to ret.sent.     *)
(***************************************************************************)
QueryInit ==
  /\ RunInit
  /\ \E n \in 1..QueryRows :
        /\ labels \in [1..n -> QueryLineagePool]
        /\ sequences \in [1..n -> QueryRefPool]
  /\ sorted = <<>>
  /\ root = << NewNode(RootLabel, 0, "Inner", 0) >>
  /\ confidence_idx = 0
  /\ num_tips = 0
  /\ tpc = "sort"
  /\ sorted_seqs = <<>>
  /\ k_mer_map = <<>>
  /\ call \in { [fn |-> "raxtax", queries |-> qs,
                 chunk_size |-> ChunkSizeFor(NumQueries, t, MinChunk),
                 settings |-> [skip_exact_matches |-> s, raw_confidence |-> r]] :
                qs \in [1..NumQueries -> QuerySeqPool], t \in 1..NumWorkers,
                s \in BOOLEAN, r \in BOOLEAN }
  /\ ret = NoCall
  /\ workers = <<>>

\* The closure of a chunk before its first statement.
NewWorker ==
  [pc |-> "start", i |-> 0, intersect_buffer |-> <<>>, exact_matches |-> <<>>,
   k_mers |-> <<>>, why |-> ""]

\* The position in queries of the i-th query of chunk k.
QueryIndex(k, i) == (k - 1) * call.chunk_size + i

\* raxtax.rs:49-62: the warnings flag and the chunks of the queries
RaxtaxStart ==
  /\ tpc = "done"
  /\ call.fn = "raxtax"
  /\ ret = NoCall
  /\ ret' = [fn |-> "raxtax", warnings |-> FALSE, poisoned |-> FALSE, sent |-> <<>>]
  /\ workers' = [k \in 1..NumChunks(Len(call.queries), call.chunk_size) |-> NewWorker]
  /\ UNCHANGED <<call, treeVars, runVars>>

\* raxtax.rs:64: the buffer of the chunk
ChunkStart(k) ==
  /\ workers[k].pc = "start"
  /\ workers' = [workers EXCEPT ![k] = [@ EXCEPT !.pc = "count", !.i = 1,
                                          !.intersect_buffer = [r \in 1..num_tips |-> 0]]]
  /\ UNCHANGED <<call, ret, treeVars, runVars>>

\* A panic ends the closure of the chunk.
Panicked(w, why) == [w EXCEPT !.pc = "panicked", !.why = why]

\* raxtax.rs:66-95: one query up to the call of the engine.  A panic under
\* the lock on warnings poisons the mutex, and lock().unwrap() panics on a
\* poisoned mutex.
QueryCount(k) ==
  /\ workers[k].pc = "count"
  /\ LET w == workers[k]
         query_sequence == call.queries[QueryIndex(k, w.i)]
         skip == call.settings.skip_exact_matches
         buffer == FillZero(w.intersect_buffer)
         exact_matches == ExactMatches(sorted_seqs, query_sequence)
         same == IF skip THEN "equal" ELSE AllEqualFrom(sorted, exact_matches, 1, <<>>)
         kmers == sequence_to_kmers(query_sequence)
         counted == CountKmers(buffer, k_mer_map, kmers.k_mers, 1)
         warned == [ret EXCEPT !.warnings = @ \/ same = "differ"]
     IN  IF ~skip /\ ret.poisoned
           THEN /\ workers' = [workers EXCEPT ![k] = Panicked(
                                 [w EXCEPT !.intersect_buffer = buffer], "lock")]
                /\ ret' = ret
         ELSE IF same = "panic"
           THEN /\ workers' = [workers EXCEPT ![k] = Panicked(
                                 [w EXCEPT !.intersect_buffer = buffer,
                                           !.exact_matches = exact_matches], "rsplit_once")]
                /\ ret' = [ret EXCEPT !.poisoned = TRUE]
         ELSE IF kmers.panicked
           THEN /\ workers' = [workers EXCEPT ![k] = Panicked(
                                 [w EXCEPT !.intersect_buffer = buffer,
                                           !.exact_matches = exact_matches], "slice")]
                /\ ret' = warned
         ELSE /\ workers' = [workers EXCEPT ![k] =
                   [w EXCEPT !.pc = "engine",
                             !.exact_matches = exact_matches,
                             !.k_mers = kmers.k_mers,
                             !.intersect_buffer =
                                IF skip THEN ZeroExact(counted, exact_matches, 1)
                                ELSE counted]]
              /\ ret' = warned
  /\ UNCHANGED <<call, treeVars, runVars>>

\* raxtax.rs:96-115: the engine, the evaluator, the assertion, the single
\* exact match and the send; the build decides on overflow checks.
QueryEngine(k) ==
  /\ workers[k].pc = "engine"
  /\ \E overflow_checks \in BOOLEAN :
     \E highest_hit_probs \in
          { highest_hit_prob_per_reference(Len(workers[k].k_mers),
                                           Len(workers[k].k_mers) \div 2,
                                           workers[k].intersect_buffer, overflow_checks) } :
     \E evaluated \in
          { IF highest_hit_probs.panicked THEN EvalPanic("")
            ELSE evaluate(root, sorted, num_tips, highest_hit_probs.hits,
                          highest_hit_probs.probs_sum) } :
       LET w == workers[k]
           single == /\ ~call.settings.raw_confidence
                     /\ ~call.settings.skip_exact_matches
                     /\ Len(w.exact_matches) = 1
           eval_res == IF single
                       THEN << ExactRow(sorted, w.exact_matches[1], evaluated.rows[1]) >>
                       ELSE evaluated.rows
           last == w.i = ChunkLen(Len(call.queries), call.chunk_size, k)
       IN  IF highest_hit_probs.panicked
             THEN /\ workers' = [workers EXCEPT ![k] = Panicked(w, highest_hit_probs.why)]
                  /\ ret' = ret
           ELSE IF evaluated.panicked
             THEN /\ workers' = [workers EXCEPT ![k] = Panicked(w, evaluated.why)]
                  /\ ret' = ret
           ELSE IF Len(evaluated.rows) = 0
             THEN /\ workers' = [workers EXCEPT ![k] = Panicked(w, "assert")]
                  /\ ret' = ret
           ELSE /\ workers' = [workers EXCEPT ![k] =
                     [w EXCEPT !.pc = IF last THEN "done" ELSE "count",
                               !.i = IF last THEN @ ELSE @ + 1]]
                /\ ret' = [ret EXCEPT !.sent = Append(@, [query |-> QueryIndex(k, w.i),
                                                          eval_res |-> eval_res])]
  /\ UNCHANGED <<call, treeVars, runVars>>

QueryNext ==
  \/ TreeNext
  \/ RaxtaxStart
  \/ \E k \in DOMAIN workers : ChunkStart(k)
  \/ \E k \in DOMAIN workers : QueryCount(k)
  \/ \E k \in DOMAIN workers : QueryEngine(k)

SpecQuery == QueryInit /\ [][QueryNext]_vars

(***************************************************************************)
(* The chunk size of main.rs:119-124, computed on its own.                 *)
(***************************************************************************)
ChunkInit ==
  /\ RunInit
  /\ TreeIdle
  /\ call \in { [fn |-> "chunk_size", queries_len |-> n, n_threads |-> t] :
                 n \in 0..MaxPending, t \in 1..MaxThreads }
  /\ ret = NoCall
  /\ workers = <<>>

ChunkCall ==
  /\ call.fn = "chunk_size"
  /\ ret = NoCall
  /\ ret' = [fn |-> "chunk_size",
             chunk_size |-> ChunkSizeFor(call.queries_len, call.n_threads, ChunkFloor)]
  /\ UNCHANGED <<call, workers, treeVars, runVars>>

SpecChunk == ChunkInit /\ [][ChunkCall]_vars

(***************************************************************************)
(* prob::iterative_pmfs_ln called on its own.                              *)
(***************************************************************************)
PmfInit ==
  /\ RunInit
  /\ TreeIdle
  /\ call \in { [fn |-> "iterative_pmfs_ln", total_num_k_mers |-> t, num_trials |-> n,
                  intersection_sizes |-> S] :
                 t \in 0..MaxTotal, n \in 0..MaxTrials, S \in SUBSET (0..MaxTotal) }
  /\ call.intersection_sizes # {}
  /\ \A x \in call.intersection_sizes : x <= call.total_num_k_mers
  /\ ret = NoCall
  /\ workers = <<>>

PmfCall ==
  /\ call.fn = "iterative_pmfs_ln"
  /\ ret = NoCall
  /\ ret' = [fn |-> "iterative_pmfs_ln"]
              @@ iterative_pmfs_ln(call.total_num_k_mers, call.num_trials,
                                   call.intersection_sizes)
  /\ UNCHANGED <<call, workers, treeVars, runVars>>

SpecPmf == PmfInit /\ [][PmfCall]_vars

(***************************************************************************)
(* utils::sse_ordered_set_intersection_count called on its own.            *)
(***************************************************************************)
SseInit ==
  /\ RunInit
  /\ TreeIdle
  /\ call \in { [fn |-> "sse_count", set_a |-> a, set_b |-> b] : a \in SsePool, b \in SsePool }
  /\ ret = NoCall
  /\ workers = <<>>

\* The call returns its count, or the process faults on a load past the end
\* of a slice.
SseCall ==
  /\ call.fn = "sse_count"
  /\ ret = NoCall
  /\ \E fault \in (IF SseReadsPastEnd(call.set_a, call.set_b) THEN BOOLEAN ELSE {FALSE}) :
       ret' = [fn |-> "sse_count", fault |-> fault,
               count |-> IF fault THEN 0
                         ELSE sse_ordered_set_intersection_count(call.set_a, call.set_b)]
  /\ UNCHANGED <<call, workers, treeVars, runVars>>

SpecSse == SseInit /\ [][SseCall]_vars

(***************************************************************************)
(* The invocation: main.rs.                                                *)
(***************************************************************************)
Idle == pc \in {"none", "exited", "killed"}
Running == pc \in {"opened", "ready", "dispatch", "returned"}

\* exit(code): the process is gone, the writer thread with it.
Exit(code) ==
  /\ pc' = "exited"
  /\ exitcode' = code

\* main.rs:16-30: a new process, Args::parse and get_output.
Invoke(a) ==
  /\ Idle
  /\ LET g == get_output(a, disk)
     IN  /\ disk' = g.disk
         /\ checkpoint' = g.checkpoint
         /\ loaded' = g.loaded
         /\ reports' = g.reports
         /\ IF g.ok THEN pc' = "opened" /\ exitcode' = "none"
            ELSE Exit("CANTCREAT")
  /\ args' = a
  /\ runs' = runs + 1
  /\ hist' = IF runs = 0 THEN hist
             ELSE Append(hist, [args |-> args, end |-> pc, code |-> exitcode])
  /\ pre' = [out |-> disk.out.lines, tsv |-> disk.tsv.lines, ckp |-> disk.ckp]
  /\ removed' = {}
  /\ queries' = <<>>
  /\ chunk_size' = 0
  /\ pos' = <<>>
  /\ sendErr' = FALSE
  /\ panicked' = FALSE
  /\ ok' = "none"
  /\ sentLog' = <<>>
  /\ failedAt' = -1
  /\ base' = [out |-> 0, tsv |-> 0, prog |-> 0]
  /\ chan' = <<>>
  /\ connected' = FALSE
  /\ wpc' = "idle"
  /\ wmsg' = NoMessage
  /\ UNCHANGED <<tampered, treeVars, calcVars>>

\* An invocation, of at most MaxRuns on the output prefix.
Start(a) ==
  /\ runs < MaxRuns
  /\ Invoke(a)

\* main.rs:61-103: read the database, write the binary index and the
\* checkpoint file.
PrepareDb ==
  /\ pc = "opened"
  /\ LET path == checkpoint.db_path
         db_path == DbOutputPath(args)
         built == [stamp |-> runs, content |-> disk.db[path].content]
         withBin == [checkpoint EXCEPT !.db_path = db_path, !.db_stamp = runs]
     IN  IF disk.db[path].stamp = 0 THEN
           /\ Exit("NOINPUT")
           /\ reports' = reports \cup {"Failed to parse"}
           /\ UNCHANGED <<disk, checkpoint>>
         ELSE IF StoreDb(path) /\ ~args.skip_db THEN
           IF disk.db[db_path].stamp # 0 /\ ~args.redo THEN
             /\ Exit("CANTCREAT")
             /\ reports' = reports \cup {"Could not create database!"}
             /\ UNCHANGED <<disk, checkpoint>>
           ELSE
             /\ disk' = [disk EXCEPT !.db[db_path] = built, !.ckp = CheckpointJson(withBin)]
             /\ checkpoint' = withBin
             /\ IF args.only_db THEN Exit("OK") ELSE pc' = "ready" /\ exitcode' = exitcode
             /\ UNCHANGED reports
         ELSE
           /\ disk' = [disk EXCEPT !.ckp = CheckpointJson(checkpoint)]
           /\ IF args.only_db THEN Exit("OK") ELSE pc' = "ready" /\ exitcode' = exitcode
           /\ UNCHANGED <<checkpoint, reports>>
  /\ UNCHANGED <<args, loaded, runs, hist, tampered, pre, removed>>
  /\ UNCHANGED <<dispatchVars, writerVars, treeVars, calcVars>>

\* main.rs:106-137: parse the queries, fix the chunk size, spawn the writer
\* and enter raxtax.
SpawnDispatch ==
  /\ pc = "ready"
  /\ LET qs == PendingQueries(checkpoint.processed_queries)
         cs == ChunkSizeFor(Len(qs), args.threads, MinChunk)
     IN  /\ queries' = qs
         /\ chunk_size' = cs
         /\ pos' = IF cs = 0 THEN <<>> ELSE [k \in 1..NumChunks(Len(qs), cs) |-> 0]
  /\ pc' = "dispatch"
  /\ chan' = <<>>
  /\ connected' = TRUE
  /\ wpc' = "recv"
  /\ wmsg' = NoMessage
  /\ base' = [out |-> Len(disk.out.lines), tsv |-> Len(disk.tsv.lines),
              prog |-> Len(disk.prog.lines)]
  /\ UNCHANGED <<sendErr, panicked, ok, sentLog, failedAt>>
  /\ UNCHANGED <<disk, args, checkpoint, loaded, reports, exitcode, runs, hist,
                 tampered, pre, removed, treeVars, calcVars>>

\* The chunks some worker has begun and not finished.
InProgress == { k \in 1..Len(pos) : 0 < pos[k] /\ pos[k] < ChunkLen(Len(queries), chunk_size, k) }

\* A worker may take the next query of chunk k: it is in the middle of the
\* chunk, or a worker is free to begin it.
MayWork(k) ==
  /\ pos[k] < ChunkLen(Len(queries), chunk_size, k)
  /\ pos[k] > 0 \/ Cardinality(InProgress) < args.threads

\* A send that queues the message twice.
SendTwice(ch, m) == Append(Append(ch, m), m)

\* Sender::send: the message is queued unless the receiver is gone.
Send(ch, m) == Append(ch, m)

\* raxtax.rs:65-115: one query of chunk k, from the intersection to the send.
WorkerStep(k) ==
  /\ pc = "dispatch"
  /\ k \in 1..Len(pos)
  /\ MayWork(k)
  /\ LET q == queries[(k - 1) * chunk_size + pos[k] + 1]
         m == Message(q, disk.db[checkpoint.db_path].content, args)
     IN  IF connected
         THEN /\ chan' = Send(chan, m)
              /\ sentLog' = Append(sentLog, q)
              /\ UNCHANGED <<sendErr, failedAt>>
         ELSE /\ sendErr' = TRUE
              /\ failedAt' = IF failedAt = -1 THEN Len(sentLog) ELSE failedAt
              /\ UNCHANGED <<chan, sentLog>>
  /\ pos' = [pos EXCEPT ![k] = @ + 1]
  /\ UNCHANGED <<queries, chunk_size, panicked, ok, base>>
  /\ UNCHANGED <<connected, wpc, wmsg, fileVars, mainVars, treeVars, calcVars>>

\* A worker panics on a query of chunk k (the assertions and unwraps of
\* raxtax.rs:75, 82, 98); the chunk is abandoned.
WorkerPanic(k) ==
  /\ pc = "dispatch"
  /\ k \in 1..Len(pos)
  /\ MayWork(k)
  /\ panicked' = TRUE
  /\ failedAt' = IF failedAt = -1 THEN Len(sentLog) ELSE failedAt
  /\ pos' = [pos EXCEPT ![k] = ChunkLen(Len(queries), chunk_size, k)]
  /\ UNCHANGED <<queries, chunk_size, sendErr, ok, sentLog, base>>
  /\ UNCHANGED <<writerVars, fileVars, mainVars, treeVars, calcVars>>

\* par_chunks(0) panics before any query is taken.
ChunkPanic ==
  /\ pc = "dispatch"
  /\ chunk_size = 0
  /\ ~panicked
  /\ panicked' = TRUE
  /\ UNCHANGED <<queries, chunk_size, pos, sendErr, ok, sentLog, failedAt, base>>
  /\ UNCHANGED <<writerVars, fileVars, mainVars, treeVars, calcVars>>

\* The panic reaches main once no worker is inside a chunk: main unwinds and
\* the process ends without joining the writer.
PanicExit ==
  /\ pc = "dispatch"
  /\ panicked
  /\ InProgress = {}
  /\ Exit("PANIC")
  /\ UNCHANGED <<args, checkpoint, loaded, reports, runs, hist, tampered, pre, removed>>
  /\ UNCHANGED <<dispatchVars, writerVars, fileVars, treeVars, calcVars>>

\* raxtax.rs:118-123 and main.rs:146: the collect ends, with the first error
\* if a send failed; the sender is dropped.
RaxtaxReturn ==
  /\ pc = "dispatch"
  /\ ~panicked
  /\ chunk_size > 0
  /\ InProgress = {}
  /\ sendErr \/ \A k \in 1..Len(pos) : pos[k] = ChunkLen(Len(queries), chunk_size, k)
  /\ ok' = IF sendErr THEN "Err" ELSE "Ok"
  /\ pc' = "returned"
  /\ UNCHANGED <<queries, chunk_size, pos, sendErr, panicked, sentLog, failedAt, base>>
  /\ UNCHANGED <<args, checkpoint, loaded, reports, exitcode, runs, hist, tampered,
                 pre, removed>>
  /\ UNCHANGED <<writerVars, fileVars, treeVars, calcVars>>

(***************************************************************************)
(* The writer thread: main.rs:127-136.                                     *)
(***************************************************************************)
WriterAlive == pc \in {"dispatch", "returned"}

\* for (query, results, tsv_results) in receiver
WriterRecv ==
  /\ WriterAlive
  /\ wpc = "recv"
  /\ chan # <<>>
  /\ wmsg' = Head(chan)
  /\ chan' = Tail(chan)
  /\ wpc' = StageFirst(args)
  /\ UNCHANGED <<connected, fileVars, mainVars, dispatchVars, treeVars, calcVars>>

\* One writeln! of the loop body succeeds.
WriterWrite ==
  /\ WriterAlive
  /\ wpc \in {"tsv", "binning", "primary", "progress"}
  /\ disk' = IF wpc = "tsv" THEN [disk EXCEPT !.tsv = writeln(@, wmsg.tsv)]
             ELSE IF wpc = "binning" THEN [disk EXCEPT !.binning = writeln(@, wmsg.binning)]
             ELSE IF wpc = "primary" THEN [disk EXCEPT !.out = writeln(@, wmsg.primary)]
             ELSE [disk EXCEPT !.prog.lines = Append(@, wmsg.query)]
  /\ wpc' = StageAfter(wpc, args)
  /\ UNCHANGED <<chan, connected, wmsg, mainVars, dispatchVars, treeVars, calcVars>>

\* One writeln! fails: the ? returns the error, the receiver is dropped with
\* whatever the channel still holds.
WriterFail ==
  /\ WriterAlive
  /\ wpc \in {"tsv", "binning", "primary", "progress"}
  /\ wpc' = "err"
  /\ connected' = FALSE
  /\ chan' = <<>>
  /\ UNCHANGED <<wmsg, fileVars, mainVars, dispatchVars, treeVars, calcVars>>

\* The channel is empty and the sender dropped: the loop ends with Ok(()).
WriterReturn ==
  /\ pc = "returned"
  /\ wpc = "recv"
  /\ chan = <<>>
  /\ wpc' = "ok"
  /\ connected' = FALSE
  /\ UNCHANGED <<chan, wmsg, fileVars, mainVars, dispatchVars, treeVars, calcVars>>

\* main.rs:147-172: join the writer (only a panic of the writer is an error
\* of join), report a failed raxtax, clean up, exit.
JoinExit ==
  /\ pc = "returned"
  /\ wpc \in {"ok", "err"}
  /\ IF ok = "Err" THEN
       /\ Exit("TEMPFAIL")
       /\ reports' = reports \cup {"Error while sending results to IO-thread!"}
       /\ UNCHANGED <<disk, removed>>
     ELSE IF args.clean THEN
       LET c == cleanup(checkpoint, disk)
       IN  /\ disk' = c.disk
           /\ removed' = c.removed
           /\ reports' = IF c.ok THEN reports
                         ELSE reports \cup {"Removing checkpoint files failed!"}
           /\ Exit("OK")
     ELSE
       /\ Exit("OK")
       /\ UNCHANGED <<disk, removed, reports>>
  /\ UNCHANGED <<args, checkpoint, loaded, runs, hist, tampered, pre>>
  /\ UNCHANGED <<dispatchVars, writerVars, treeVars, calcVars>>

\* The process is killed (signal, power loss) between two steps.
Crash ==
  /\ Running
  /\ pc' = "killed"
  /\ UNCHANGED <<args, checkpoint, loaded, reports, exitcode, runs, hist, tampered,
                 pre, removed>>
  /\ UNCHANGED <<dispatchVars, writerVars, fileVars, treeVars, calcVars>>

\* Between two invocations the user's FASTA is replaced by a newer one.
ModifyDatabase ==
  /\ Idle
  /\ runs < MaxRuns
  /\ disk.db[FastaPath].stamp = 1
  /\ disk' = [disk EXCEPT !.db[FastaPath] = [stamp |-> 2, content |-> 2]]
  /\ tampered' = TRUE
  /\ UNCHANGED <<pc, args, checkpoint, loaded, reports, exitcode, runs, hist, pre, removed>>
  /\ UNCHANGED <<dispatchVars, writerVars, treeVars, calcVars>>

\* Between two invocations the checkpoint file is damaged.
CorruptCheckpoint ==
  /\ Idle
  /\ runs < MaxRuns
  /\ disk.ckp.state = "ok"
  /\ disk' = [disk EXCEPT !.ckp.state = "corrupt"]
  /\ tampered' = TRUE
  /\ UNCHANGED <<pc, args, checkpoint, loaded, reports, exitcode, runs, hist, pre, removed>>
  /\ UNCHANGED <<dispatchVars, writerVars, treeVars, calcVars>>

RunNext ==
  \/ \E a \in ArgsSet : Start(a)
  \/ PrepareDb
  \/ SpawnDispatch
  \/ \E k \in 1..NumQueries : WorkerStep(k)
  \/ \E k \in 1..NumQueries : WorkerPanic(k)
  \/ ChunkPanic
  \/ PanicExit
  \/ RaxtaxReturn
  \/ WriterRecv
  \/ WriterWrite
  \/ WriterFail
  \/ WriterReturn
  \/ JoinExit
  \/ Crash
  \/ ModifyDatabase
  \/ CorruptCheckpoint

\* Nothing has run yet and no tree is being built.
Init == RunInit /\ TreeIdle /\ CalcIdle

SpecRun == Init /\ [][RunNext]_vars

\* Invocations without --redo that are killed or run to their end, the
\* result flags changing between them; nothing fails and no file is touched
\* from outside.
ResumeArgs ==
  { DefaultArgs,
    [DefaultArgs EXCEPT !.skip_exact_matches = TRUE],
    [DefaultArgs EXCEPT !.database_path = UserBinPath],
    [DefaultArgs EXCEPT !.database_path = UserBinPath, !.skip_exact_matches = TRUE],
    [DefaultArgs EXCEPT !.database_path = UserBinPath, !.tsv = TRUE],
    [DefaultArgs EXCEPT !.binning = TRUE],
    [DefaultArgs EXCEPT !.binning = TRUE, !.tsv = TRUE] }

ResumeNext ==
  \/ \E a \in ResumeArgs : runs < MaxResumes /\ Invoke(a)
  \/ PrepareDb
  \/ SpawnDispatch
  \/ \E k \in 1..NumQueries : WorkerStep(k)
  \/ RaxtaxReturn
  \/ WriterRecv
  \/ WriterWrite
  \/ WriterReturn
  \/ JoinExit
  \/ Crash

SpecResume == Init /\ [][ResumeNext]_vars

\* One invocation on an empty output prefix.
OneRunNext ==
  \/ \E a \in ArgsSet : pc = "none" /\ Start(a)
  \/ PrepareDb
  \/ SpawnDispatch
  \/ \E k \in 1..NumQueries : WorkerStep(k)
  \/ \E k \in 1..NumQueries : WorkerPanic(k)
  \/ PanicExit
  \/ RaxtaxReturn
  \/ WriterRecv
  \/ WriterWrite
  \/ WriterFail
  \/ WriterReturn
  \/ JoinExit
  \/ Crash

SpecOneRun == Init /\ [][OneRunNext]_vars

(***************************************************************************)
(* Properties of the run.                                                  *)
(***************************************************************************)
RECURSIVE Count(_, _)
\* How often x occurs in the sequence s.
Count(s, x) ==
  IF Len(s) = 0 THEN 0
  ELSE (IF Head(s) = x THEN 1 ELSE 0) + Count(Tail(s), x)

\* The same lines, whatever the order.
SameLines(s, t) ==
  \A x \in SeqToSet(s) \cup SeqToSet(t) : Count(s, x) = Count(t, x)

\* The lines a file gained since the writer was spawned.
Appended(f, n) == SubSeq(f.lines, n + 1, Len(f.lines))

RECURSIVE EntriesOf(_, _, _)
\* The result entries of a list of queries, one after the other.
EntriesOf(qs, content, a) ==
  IF Len(qs) = 0 THEN <<>>
  ELSE ResultEntry(Head(qs), content, a) \o EntriesOf(Tail(qs), content, a)

\* The index the running invocation reads.
RunContent == disk.db[checkpoint.db_path].content

\* The queries taken by the workers so far.
Dispatched ==
  UNION { { queries[(k - 1) * chunk_size + j] : j \in 1..pos[k] } : k \in 1..Len(pos) }

NoFailure == ~panicked /\ ~sendErr /\ wpc # "err"

\* Progress lines written by this writer, and the messages whose primary and
\* TSV entry it has written.
ProgressDone == Len(disk.prog.lines) - base.prog
PrimaryDone == ProgressDone + (IF wpc = "progress" THEN 1 ELSE 0)
TsvDone == ProgressDone + (IF wpc \in {"binning", "primary", "progress"} THEN 1 ELSE 0)

\* C2: in a run without failures every dispatched query has exactly one
\* message on the channel, the writer writes for each message, in arrival
\* order, one TSV entry iff --tsv, one primary entry and one progress line
\* with the label, and once the writer has returned every query of the run
\* is written exactly once.
C2_ExactlyOnce ==
  (pc \in {"dispatch", "returned"} /\ NoFailure) =>
    /\ SeqToSet(sentLog) = Dispatched
    /\ \A q \in Dispatched : Count(sentLog, q) = 1
    /\ TsvDone <= Len(sentLog)
    /\ Appended(disk.prog, base.prog) = SubSeq(sentLog, 1, ProgressDone)
    /\ Appended(disk.out, base.out)
         = EntriesOf(SubSeq(sentLog, 1, PrimaryDone), RunContent, args)
    /\ Appended(disk.tsv, base.tsv)
         = IF args.tsv THEN EntriesOf(SubSeq(sentLog, 1, TsvDone), RunContent, args)
           ELSE <<>>
    /\ wpc = "ok" => /\ ProgressDone = Len(queries)
                     /\ SeqToSet(sentLog) = SeqToSet(queries)

\* Two workers, TSV on: the writer has returned after writing the queries
\* in another order than the query file has them.
C2_Witness ==
  /\ pc = "returned"
  /\ wpc = "ok"
  /\ NoFailure
  /\ args.tsv
  /\ args.threads > 1
  /\ Len(sentLog) = NumQueries
  /\ sentLog # queries
  /\ Len(disk.tsv.lines) = Len(disk.out.lines)

\* The file holds every row of a result of the query, whatever the flags and
\* the database it was computed with.
HasResult(lines, q) ==
  \A row \in 1..NumRows(q) :
    \E i \in 1..Len(lines) :
      lines[i].tab /\ lines[i].query = q /\ lines[i].row = row

\* C3: at every moment of a run every label in the progress file has all its
\* primary lines, and with --tsv all its TSV lines, in the output files.
C3_ProgressAfterOutput ==
  Running =>
    \A i \in 1..Len(disk.prog.lines) :
      /\ HasResult(disk.out.lines, disk.prog.lines[i])
      /\ args.tsv => HasResult(disk.tsv.lines, disk.prog.lines[i])

\* The output of a run over the whole query file with the user's database.
FullOutput(a) == EntriesOf(QueryFile, UserDb(a.database_path).content, a)

\* Every earlier invocation had this command line and was killed.
ResumedAfterKill ==
  /\ Len(hist) >= 1
  /\ \A i \in 1..Len(hist) : hist[i].args = args /\ hist[i].end = "killed"

\* C1: an interrupted run that is resumed with the same command line and the
\* same prefix, command line and database unchanged, ends with the same
\* multiset of lines in the primary output, and with --tsv in the TSV
\* output, as one uninterrupted run.
C1_ResumeEquivalence ==
  (/\ pc = "exited"
   /\ exitcode = "OK"
   /\ ~args.only_db
   /\ loaded
   /\ ~tampered
   /\ NoFailure
   /\ ResumedAfterKill)
  => /\ SameLines(disk.out.lines, FullOutput(args))
     /\ args.tsv => SameLines(disk.tsv.lines, FullOutput(args))

\* C4: after the truncation of a resumed run each output file holds exactly
\* the lines, in order, whose label is in the progress set that was read: no
\* line of a completed query is removed and no other line remains.
C4_TruncationKeepsCompleted ==
  (pc = "opened" /\ loaded) =>
    /\ disk.out.lines = RetainedLines(pre.out, checkpoint.processed_queries)
    /\ args.tsv => disk.tsv.lines = RetainedLines(pre.tsv, checkpoint.processed_queries)

\* The checkpoint file found at the start does not fit the invocation.
CheckpointUnfit ==
  \/ pre.ckp.state = "corrupt"
  \/ pre.ckp.tsv # args.tsv
  \/ pre.ckp.raw_confidence # args.raw_confidence
  \/ pre.ckp.skip_exact_matches # args.skip_exact_matches
  \/ pre.ckp.db_path \notin {args.database_path, DbOutputPath(args)}
  \/ pre.ckp.db_stamp # disk.db[pre.ckp.db_path].stamp

\* C5: a checkpoint is loaded only when --redo is absent, its three output
\* flags equal those of the invocation and its fingerprint matches the
\* database of the invocation; a checkpoint that is found and does not fit
\* is reported and nothing is taken from it.
C5_CheckpointAcceptance ==
  pc = "opened" =>
    /\ loaded => ~args.redo /\ pre.ckp.state = "ok" /\ ~CheckpointUnfit
    /\ (~args.redo /\ pre.ckp.state # "absent" /\ CheckpointUnfit) =>
         /\ ~loaded
         /\ reports # {}
         /\ checkpoint.processed_queries = {}

\* C6: after the failure of a worker the process exits non-zero, the writer
\* has finished before that, and every message sent before the failure is
\* in the primary output and in the progress file.
C6_WorkerFailureDrains ==
  (pc = "exited" /\ failedAt >= 0) =>
    /\ exitcode # "OK"
    /\ wpc \in {"ok", "err"}
    /\ \A i \in 1..failedAt :
         /\ Count(Appended(disk.prog, base.prog), sentLog[i]) >= 1
         /\ LET entry == ResultEntry(sentLog[i], RunContent, args)
            IN  \A r \in 1..Len(entry) :
                  Count(Appended(disk.out, base.out), entry[r]) >= 1

\* C7: a writer that ended on a write error is reported and the exit code
\* is not OK.
C7_WriterFailureReported ==
  (pc = "exited" /\ wpc = "err" /\ ~panicked) =>
    /\ exitcode # "OK"
    /\ reports # {}

\* C8: --clean removes, after a successful run only, the checkpoint JSON,
\* the progress file and the binary index the tool generated, and never a
\* database the user supplied.
C8_CleanRemovesOnlyOwnFiles ==
  (pc = "exited" /\ NoFailure) =>
    /\ removed \cap UserDbPaths = {}
    /\ \A p \in UserDbPaths : disk.db[p].stamp # 0
    /\ removed \subseteq {"raxtax.json", "raxtax.ckp", GeneratedBinPath, GeneratedUBinPath}
    /\ removed # {} => args.clean /\ exitcode = "OK"


(***************************************************************************)
(* Properties of the trie built by Tree::new.                              *)
(***************************************************************************)
Range(n) == root[n].lo .. (root[n].hi - 1)

RECURSIVE SumSizes(_)
SumSizes(S) ==
  IF S = {} THEN 0
  ELSE LET c == CHOOSE x \in S : TRUE
       IN  (root[c].hi - root[c].lo) + SumSizes(S \ {c})

ChildrenPartition(n) ==
  /\ \A c, d \in Children(root, n) : c # d => Range(c) \cap Range(d) = {}
  /\ UNION { Range(c) : c \in Children(root, n) } = Range(n)
  /\ root[n].hi - root[n].lo = SumSizes(Children(root, n))

\* C9: after Tree::new the confidence ranges of the children of every node
\* that has children are pairwise disjoint and add up to exactly the node's
\* range, and the root's range is [0, num_tips) with num_tips the number of
\* input rows.
C9_ChildRangesPartition ==
  tpc = "done" =>
    /\ \A n \in 1..Len(root) : Children(root, n) # {} => ChildrenPartition(n)
    /\ root[1].lo = 0
    /\ root[1].hi = num_tips
    /\ num_tips = Len(labels)

\* The taxonomic children of a node: its children that are not Sequence stubs.
TaxonChildren(n) == { c \in Children(root, n) : root[c].node_type # "Sequence" }

RECURSIVE NodesAt(_)
\* The nodes reached from the root by following the labels of a token prefix.
NodesAt(P) ==
  IF Len(P) = 0 THEN {1}
  ELSE { c \in 1..Len(root) :
           \E n \in NodesAt(SubSeq(P, 1, Len(P) - 1)) :
             c \in TaxonChildren(n) /\ root[c].label = P[Len(P)] }

\* The reference ids (0-based positions after sorting) whose lineage starts
\* with the token prefix P.
RefsWithPrefix(P) ==
  { r - 1 : r \in { i \in 1..Len(sorted) :
                      /\ Len(Split(sorted[i])) >= Len(P)
                      /\ SubSeq(Split(sorted[i]), 1, Len(P)) = P } }

Contiguous(S) == \A i, j \in S : \A m \in i..j : m \in S

\* C10: for every token prefix of every lineage the references starting with
\* it form one contiguous range of ids and lie under one node only, the
\* Inner or Taxon node reached by following the prefix's labels; no node has
\* two Inner or Taxon children with the same label.
C10_PrefixOwnsOneSubtree ==
  tpc = "done" =>
    /\ \A n \in 1..Len(root) : \A c, d \in TaxonChildren(n) :
         c # d => root[c].label # root[d].label
    /\ \A i \in 1..Len(sorted) : \A k \in 1..Len(Split(sorted[i])) :
         LET P == SubSeq(Split(sorted[i]), 1, k)
         IN  /\ Contiguous(RefsWithPrefix(P))
             /\ Cardinality(NodesAt(P)) <= 1
             /\ \A n \in NodesAt(P) : RefsWithPrefix(P) \subseteq Range(n)

(***************************************************************************)
(* Properties of the 8-mer index.                                          *)
(***************************************************************************)
IsPureBase(c) == c \in {1, 2, 4, 8}

\* The 2-bit code of a pure base: A = 00, C = 01, G = 10, T = 11.
TwoBitCode(c) == CASE c = 1 -> 0 [] c = 2 -> 1 [] c = 4 -> 2 [] c = 8 -> 3

WindowStarts(s) == { i \in 1..Len(s) : i + KmerLen - 1 <= Len(s) }

PureWindow(s, i) == \A j \in 0..(KmerLen - 1) : IsPureBase(s[i + j])

RECURSIVE KeyFrom(_, _, _)
\* Position j of the window contributes its 2-bit code at bits 14-2j, 15-2j.
KeyFrom(s, i, j) ==
  IF j = KmerLen THEN 0
  ELSE TwoBitCode(s[i + j]) * 4^(KmerLen - 1 - j) + KeyFrom(s, i, j + 1)

HasPureWindowWithKey(s, k) ==
  \E i \in WindowStarts(s) : PureWindow(s, i) /\ KeyFrom(s, i, 0) = k

IdsOf(list) == { list[i] : i \in 1..Len(list) }

StrictlyIncreasing(list) == \A i \in 1..(Len(list) - 1) : list[i] < list[i + 1]

\* The sorted rows are the input rows, each as often as it was given.
SortKeepsRows ==
  /\ Len(sorted) = Len(labels)
  /\ Len(sorted_seqs) = Len(labels)
  /\ \A i \in 1..Len(labels) :
       Cardinality({ j \in 1..Len(labels) : labels[j] = labels[i] /\ sequences[j] = sequences[i] })
         = Cardinality({ j \in 1..Len(sorted) : sorted[j] = labels[i] /\ sorted_seqs[j] = sequences[i] })

\* C11: after Tree::new every posting list is strictly increasing, every id
\* in it is below num_tips, and id r is in the list of key k exactly when the
\* sequence of the r-th row after the sort by lineage has a window of 8 pure
\* bases whose 16-bit key is k; a window holding an ambiguity code adds no id.
C11_PostingLists ==
  tpc = "done" =>
    /\ SortKeepsRows
    /\ num_tips = Len(sorted_seqs)
    /\ \A k \in DOMAIN k_mer_map :
         /\ k \in 0..(NumKeys - 1)
         /\ StrictlyIncreasing(k_mer_map[k])
         /\ \A r \in IdsOf(k_mer_map[k]) :
              r \in 0..(num_tips - 1) /\ HasPureWindowWithKey(sorted_seqs[r + 1], k)
    /\ \A r \in 0..(num_tips - 1) :
         \A i \in WindowStarts(sorted_seqs[r + 1]) :
           PureWindow(sorted_seqs[r + 1], i) =>
             r \in IdsOf(PostingList(k_mer_map, KeyFrom(sorted_seqs[r + 1], i, 0)))

\* Tree::new has finished on rows the sort reordered, with a posting list of
\* two ids, a row repeating an 8-mer and a row with an ambiguous window.
C11_Witness ==
  /\ tpc = "done"
  /\ sorted # labels
  /\ \E k \in DOMAIN k_mer_map : Len(k_mer_map[k]) >= 2
  /\ \E r \in 1..Len(sorted_seqs) :
       \E i \in WindowStarts(sorted_seqs[r]) : ~PureWindow(sorted_seqs[r], i)
  /\ \E r \in 1..Len(sorted_seqs) :
       \E i, j \in WindowStarts(sorted_seqs[r]) :
         /\ i < j /\ PureWindow(sorted_seqs[r], i) /\ PureWindow(sorted_seqs[r], j)
         /\ KeyFrom(sorted_seqs[r], i, 0) = KeyFrom(sorted_seqs[r], j, 0)

(***************************************************************************)
(* Properties of sequence_to_kmers.                                        *)
(***************************************************************************)
RECURSIVE QueryKeyFrom(_, _, _)
\* The 16-bit key of the window of 2-bit codes starting at i.
QueryKeyFrom(s, i, j) ==
  IF j = KmerLen THEN 0
  ELSE s[i + j] * 4^(KmerLen - 1 - j) + QueryKeyFrom(s, i, j + 1)

WindowKeys(s) == { QueryKeyFrom(s, i, 0) : i \in WindowStarts(s) }

\* C17: sequence_to_kmers returns the sorted duplicate-free sequence of the
\* 16-bit keys of the 8-wide windows, and for a sequence shorter than 8 bases
\* it returns the empty keyset rather than failing.
C17_KmersOfWindows ==
  ret.fn = "sequence_to_kmers" =>
    /\ ~ret.panicked
    /\ StrictlyIncreasing(ret.k_mers)
    /\ IdsOf(ret.k_mers) = WindowKeys(call.sequence)

(***************************************************************************)
(* Properties of the hit-probability engine.  The probability of reference *)
(* r is ret.hits[r] / ret.probs_sum.                                       *)
(***************************************************************************)
EngineReturned == ret.fn = "highest_hit_prob_per_reference"

\* C13: for any total, any number of trials and any non-empty vector of
\* sizes, each at most total, the engine returns a vector of the same length
\* with non-negative entries that add up to 1, and its assertion that the
\* unnormalized sum is positive does not fail.
C13_NormalizedVector ==
  EngineReturned =>
    /\ ~ret.panicked
    /\ Len(ret.hits) = Len(call.intersection_sizes)
    /\ \A r \in 1..Len(ret.hits) : ret.hits[r] >= 0
    /\ ret.probs_sum > 0
    /\ SumSeq(ret.hits) = ret.probs_sum

FastPath ==
  \E r \in 1..Len(call.intersection_sizes) :
    call.intersection_sizes[r] = call.total_num_k_mers

\* C14 as stated: on the fast path only a reference whose intersection equals
\* total has a non-zero hit probability.
C14_OnlyFullIntersectionNonZero ==
  (EngineReturned /\ ~ret.panicked /\ FastPath) =>
    \A r \in 1..Len(ret.hits) :
      ret.hits[r] # 0 => call.intersection_sizes[r] = call.total_num_k_mers

\* C14 amended: on the fast path the unnormalized hit probability of a
\* reference with intersection s is 1 for s = total, 0 for s = 0 < total and
\* C(s+T-1, T) / C(total+T-1, T) in between, which is positive; so after the
\* normalization a reference has probability 0 exactly when s = 0 < total and
\* the references with s = total have the largest probability.  The one
\* exception is total = T = 0 on a build with overflow checks, where the call
\* panics.
C14_FastPathLastDraw ==
  (EngineReturned /\ FastPath) =>
    IF call.total_num_k_mers + call.num_trials = 0 /\ call.overflow_checks
    THEN ret.panicked
    ELSE
      /\ ~ret.panicked
      /\ \A r \in 1..Len(ret.hits) :
           LET s == call.intersection_sizes[r]
               total == call.total_num_k_mers
               T == call.num_trials
           IN  /\ s = total => ret.hits[r] = ret.den
               /\ (s = 0 /\ total > 0) => ret.hits[r] = 0
               /\ (0 < s /\ s < total) =>
                    /\ ret.hits[r] * Binomial(total + T - 1, T)
                         = ret.den * Binomial(s + T - 1, T)
                    /\ ret.hits[r] > 0
               /\ \A q \in 1..Len(ret.hits) : s = total => ret.hits[q] <= ret.hits[r]

\* The fast path was taken with at least one trial and a reference whose
\* intersection is neither 0 nor total.
C14_Witness ==
  /\ EngineReturned /\ ~ret.panicked /\ FastPath
  /\ call.num_trials >= 1
  /\ \E r \in 1..Len(ret.hits) :
       /\ 0 < call.intersection_sizes[r]
       /\ call.intersection_sizes[r] < call.total_num_k_mers
       /\ ret.hits[r] > 0 /\ ret.hits[r] < ret.den

\* C15: a reference with a larger intersection never gets a smaller hit
\* probability than a reference with a smaller one.
C15_MonotoneInIntersection ==
  (EngineReturned /\ ~ret.panicked) =>
    \A r, q \in 1..Len(ret.hits) :
      call.intersection_sizes[r] <= call.intersection_sizes[q] => ret.hits[r] <= ret.hits[q]

\* The general path returned for three references of three different sizes
\* with strictly growing probabilities.
C15_Witness ==
  /\ EngineReturned /\ ~ret.panicked /\ ~FastPath
  /\ \E r, q, p \in 1..Len(ret.hits) :
       /\ call.intersection_sizes[r] < call.intersection_sizes[q]
       /\ call.intersection_sizes[q] < call.intersection_sizes[p]
       /\ 0 < ret.hits[r] /\ ret.hits[r] < ret.hits[q] /\ ret.hits[q] < ret.hits[p]

(***************************************************************************)
(* Properties of the lineage evaluator.  They are stated on the nodes of   *)
(* the trie, not on the recursion of the evaluator.                        *)
(***************************************************************************)
Evaluated == ret.fn = "evaluate"

RECURSIVE PathTo(_)
\* The nodes from the child of the root down to n; empty for the root.
PathTo(n) == IF root[n].parent = 0 THEN <<>> ELSE Append(PathTo(root[n].parent), n)

\* The mass of a node, in thousandths.
Mass(n) == SumSeq([j \in 1..(root[n].hi - root[n].lo) |-> call.confidence_values[root[n].lo + j]])

\* The mass rounded to two decimals, in hundredths.
RoundedMass(n) == IF (Mass(n) % 10) >= 5 THEN Mass(n) \div 10 + 1 ELSE Mass(n) \div 10

RoundedPath(n) == [i \in 1..Len(PathTo(n)) |-> RoundedMass(PathTo(n)[i])]

\* The enumeration reaches n: no node on the way to it is pruned.
Reached(n) == \A i \in 1..Len(PathTo(n)) : RoundedMass(PathTo(n)[i]) # 0

Taxa == { n \in 1..Len(root) : root[n].node_type = "Taxon" }

RowsOf(n) == { i \in 1..Len(ret.rows) : ret.rows[i].idx = root[n].lo }

SortedDescending ==
  \A i, j \in 1..Len(ret.rows) :
    i < j => ~StrLess(ret.rows[i].confidence_values, ret.rows[j].confidence_values)

\* What C18 says of the rows, when rows are returned.
TaxonRows ==
  /\ \A t \in Taxa :
       Reached(t) =>
         /\ Cardinality(RowsOf(t)) = 1
         /\ \A i \in RowsOf(t) :
              /\ ret.rows[i].lineage = sorted[root[t].lo + 1]
              /\ Split(ret.rows[i].lineage) = [k \in 1..Len(PathTo(t)) |-> root[PathTo(t)[k]].label]
              /\ ret.rows[i].confidence_values = RoundedPath(t)
              /\ Len(ret.rows[i].confidence_values) = Len(Split(ret.rows[i].lineage))
  /\ SortedDescending

\* C18: for any trie and probability vector, evaluate returns one row for
\* every Taxon node whose rounded mass and whose ancestors' rounded masses
\* below the root are not zero; the row has the lineage of the Taxon and the
\* rounded masses along the path as confidence vector, one per level; the
\* rows are in descending lexicographic order of the confidence vectors.
C18_RowPerSignificantTaxon ==
  Evaluated => (~ret.panicked /\ TaxonRows)

\* An Inner node the enumeration reaches none of whose children survives.
CollapsesAt(n) ==
  /\ root[n].node_type = "Inner"
  /\ Reached(n)
  /\ Children(root, n) # {}
  /\ \A c \in Children(root, n) : RoundedMass(c) = 0

RECURSIVE Subtree(_)
Subtree(n) == {n} \cup UNION { Subtree(c) : c \in Children(root, n) }

IsMaxChild(c, n) ==
  c \in Children(root, n) /\ \A d \in Children(root, n) : Mass(d) <= Mass(c)

RECURSIVE MaxDescentEnds(_)
\* The nodes a descent along maximal children ends at: the first node on the
\* way that is not Inner.
MaxDescentEnds(n) ==
  IF root[n].node_type # "Inner" THEN {n}
  ELSE UNION { MaxDescentEnds(c) : c \in { d \in Children(root, n) : IsMaxChild(d, n) } }

\* What C19 says of the rows, when rows are returned.
CollapsedRows ==
  \A n \in 1..Len(root) :
    CollapsesAt(n) =>
      \E t \in MaxDescentEnds(n) :
        /\ root[t].node_type = "Taxon"
        /\ \E i \in 1..Len(ret.rows) :
             /\ ret.rows[i].idx = root[t].lo
             /\ ret.rows[i].lineage = sorted[root[t].lo + 1]
             /\ ret.rows[i].confidence_values
                  = RoundedPath(n) \o [k \in 1..(Len(PathTo(t)) - Len(PathTo(n))) |-> 1]
             /\ \A j \in 1..Len(ret.rows) :
                  (\E u \in Subtree(n) \cap Taxa : ret.rows[j].idx = root[u].lo) => j = i

\* C19: when no child of an Inner node survives the pruning, exactly one
\* collapsed row is emitted for the node: it follows the child of largest
\* mass at every Inner level down to a Taxon, has 0.01 for every level
\* descended, carries the lineage of that Taxon, and is the only row of the
\* subtree.
C19_OneCollapsedRow ==
  (Evaluated /\ \E n \in 1..Len(root) : CollapsesAt(n)) => (~ret.panicked /\ CollapsedRows)

\* The vectors eval_recurse pushed for the call.
PushedVectors == eval_recurse(root, call.confidence_values, ProbUnit, 1, <<>>, <<>>)

AllOneExpected(v) == \A k \in 1..Len(v.expected) : v.expected[k] = num_tips

\* C20: when a row has an expected vector of ones only (a database of a
\* single lineage), evaluate completes and the row gets a local signal.
C20_SingleLineageCompletes ==
  (Evaluated /\ \E k \in 1..Len(PushedVectors) : AllOneExpected(PushedVectors[k])) =>
    /\ ~ret.panicked
    /\ \E i \in 1..Len(ret.rows) :
         \A k \in 1..Len(ret.rows[i].expected) : ret.rows[i].expected[k] = num_tips


(***************************************************************************)
(* Properties of the closure of a chunk.                                   *)
(***************************************************************************)
\* The number of distinct 16-bit keys the query and the reference share.
SharedKeys(query_sequence, reference) ==
  Cardinality({ key \in WindowKeys(query_sequence) : HasPureWindowWithKey(reference, key) })

\* The query chunk k is at.
CurrentQuery(k) == call.queries[QueryIndex(k, workers[k].i)]

\* C12: when a worker calls the engine, its buffer has num_tips entries and
\* entry r is the number of distinct keys the query of that call shares with
\* reference r (0 for an exact match when exact matches are skipped),
\* whatever the worker counted for earlier queries of the chunk and whatever
\* the other workers do.
C12_BufferCountsSharedKeys ==
  \A k \in DOMAIN workers :
    workers[k].pc = "engine" =>
      /\ Len(workers[k].intersect_buffer) = num_tips
      /\ \A r \in 1..num_tips :
           workers[k].intersect_buffer[r] =
             IF /\ call.settings.skip_exact_matches
                /\ sorted_seqs[r] = CurrentQuery(k)
             THEN 0
             ELSE SharedKeys(CurrentQuery(k), sorted_seqs[r])

\* A worker calls the engine for the second query of its chunk with a count
\* above 0 for a reference the first query of the chunk shares keys with.
C12_Witness ==
  \E k \in DOMAIN workers :
    /\ workers[k].pc = "engine"
    /\ workers[k].i = 2
    /\ \E r \in 1..num_tips :
         /\ workers[k].intersect_buffer[r] > 0
         /\ SharedKeys(call.queries[QueryIndex(k, 1)], sorted_seqs[r]) > 0

\* C16: a query without a key is answered: no worker stops in the key
\* extraction, the engine, the evaluator or the assertion on eval_res, the
\* engine is called for a query without keys, and every message sent holds
\* at least one row.
C16_EmptyKeysetAnswered ==
  /\ \A k \in DOMAIN workers :
       workers[k].pc = "panicked" =>
         workers[k].why \notin {"slice", "overflow", "zip_eq", "assert", "max_by",
                                "find_position"}
  /\ ret.fn = "raxtax" =>
       \A m \in 1..Len(ret.sent) : Len(ret.sent[m].eval_res) >= 1


(***************************************************************************)
(* Properties of what a worker reports for a query.                        *)
(***************************************************************************)
\* The counts the engine is called with for a query.
CountsOf(query_sequence) ==
  [r \in 1..num_tips |->
     IF call.settings.skip_exact_matches /\ sorted_seqs[r] = query_sequence THEN 0
     ELSE SharedKeys(query_sequence, sorted_seqs[r])]

\* The references whose sequence is the query.
ExactIds(query_sequence) == { r \in 0..(num_tips - 1) : sorted_seqs[r + 1] = query_sequence }

\* What the engine returns for a query of at least one window.
EngineOf(query_sequence) ==
  highest_hit_prob_per_reference(Cardinality(WindowKeys(query_sequence)),
                                 Cardinality(WindowKeys(query_sequence)) \div 2,
                                 CountsOf(query_sequence), TRUE)

\* The rows the evaluator returns for a query.
RowsFor(query_sequence) ==
  evaluate(root, sorted, num_tips, EngineOf(query_sequence).hits,
           EngineOf(query_sequence).probs_sum).rows

\* The single exact match is reported instead of the evaluator's rows.
SingleExact(query_sequence) ==
  /\ ~call.settings.raw_confidence
  /\ ~call.settings.skip_exact_matches
  /\ Cardinality(ExactIds(query_sequence)) = 1

\* What C21 says of a message.
ReportedAsC21(m) ==
  LET query_sequence == call.queries[m.query]
      rows == RowsFor(query_sequence)
  IN  IF SingleExact(query_sequence)
      THEN LET r == CHOOSE id \in ExactIds(query_sequence) : TRUE
           IN  /\ Len(m.eval_res) >= 1
               /\ m.eval_res[1].lineage = sorted[r + 1]
               /\ m.eval_res[1].confidence_values
                    = [l \in 1..Len(Split(sorted[r + 1])) |-> rounding_factor]
               /\ m.eval_res[1].local_signal = rows[1].local_signal
               /\ m.eval_res[1].global_signal = rows[1].global_signal
      ELSE m.eval_res = rows

OnlyReferenceSkipped(query_sequence) ==
  /\ call.settings.skip_exact_matches
  /\ tpc = "done"
  /\ num_tips = 1
  /\ sorted_seqs[1] = query_sequence

\* C22: with skip_exact_matches the engine is called with 0 for every exact
\* match and with the count of shared keys for every other reference; a
\* query that is the only reference is reported with a single row, that of
\* the forced descent, 0.01 at every level.
C22_SkipExactZeroes ==
  /\ \A k \in DOMAIN workers :
       (workers[k].pc = "engine" /\ call.settings.skip_exact_matches) =>
         \A r \in 1..num_tips :
           workers[k].intersect_buffer[r] =
             IF sorted_seqs[r] = CurrentQuery(k) THEN 0
             ELSE SharedKeys(CurrentQuery(k), sorted_seqs[r])
  /\ \A k \in DOMAIN workers :
       (workers[k].i >= 1 /\ OnlyReferenceSkipped(CurrentQuery(k))) =>
         workers[k].pc # "panicked"
  /\ ret.fn = "raxtax" =>
       \A j \in 1..Len(ret.sent) :
         OnlyReferenceSkipped(call.queries[ret.sent[j].query]) =>
           /\ Len(ret.sent[j].eval_res) = 1
           /\ \A l \in 1..Len(ret.sent[j].eval_res[1].confidence_values) :
                ret.sent[j].eval_res[1].confidence_values[l] = 1


(***************************************************************************)
(* Properties of the chunk size.                                           *)
(***************************************************************************)
ChunkComputed == ret.fn = "chunk_size"

\* The ceiling of a / b for b > 0.
CeilDiv(a, b) == (a + b - 1) \div b

\* C23 as stated: for more than one worker the chunk size is the larger of
\* 100 and the ceiling of Q / (10 W), for one worker it is Q.
C23_ChunkSizeCeiling ==
  ChunkComputed =>
    ret.chunk_size =
      IF call.n_threads = 1 THEN call.queries_len
      ELSE IF CeilDiv(call.queries_len, 10 * call.n_threads) > ChunkFloor
           THEN CeilDiv(call.queries_len, 10 * call.n_threads)
           ELSE ChunkFloor

\* Q is a multiple of 10 W and the quotient is at least 100.
FullChunks ==
  /\ call.queries_len % (10 * call.n_threads) = 0
  /\ call.queries_len \div (10 * call.n_threads) >= ChunkFloor

\* C23 amended: for more than one worker the chunk size is the least c >= 100
\* with 10 W c > Q, which is the larger of 100 and the ceiling of Q / (10 W)
\* unless Q is a multiple of 10 W with a quotient of at least 100, where it
\* is one more; for one worker the chunk size is Q.
C23_ChunkSizeFloorPlusOne ==
  ChunkComputed =>
    IF call.n_threads = 1 THEN ret.chunk_size = call.queries_len
    ELSE /\ ret.chunk_size >= ChunkFloor
         /\ 10 * call.n_threads * ret.chunk_size > call.queries_len
         /\ ret.chunk_size > ChunkFloor =>
              10 * call.n_threads * (ret.chunk_size - 1) <= call.queries_len
         /\ ret.chunk_size =
              (IF CeilDiv(call.queries_len, 10 * call.n_threads) > ChunkFloor
               THEN CeilDiv(call.queries_len, 10 * call.n_threads)
               ELSE ChunkFloor) + (IF FullChunks THEN 1 ELSE 0)

\* The chunk size was computed for more than one worker and a number of
\* queries that is a multiple of 10 W with a quotient of at least 100.
C23_Witness ==
  /\ ChunkComputed
  /\ call.n_threads > 1
  /\ FullChunks


(***************************************************************************)
(* Properties of nested Taxon nodes.                                       *)
(***************************************************************************)
\* u is a Taxon below the Taxon t with a range that starts elsewhere.
TaxonBelow(u, t) ==
  /\ t \in Taxa
  /\ u \in Taxa
  /\ u # t
  /\ u \in Subtree(t)
  /\ root[u].lo # root[t].lo

\* C24: when evaluate returns a row for a Taxon below another Taxon, it
\* returns no row for the Taxon above.
C24_NoRowForAncestorTaxon ==
  (Evaluated /\ ~ret.panicked) =>
    \A t, u \in Taxa :
      (TaxonBelow(u, t) /\ RowsOf(u) # {}) => RowsOf(t) = {}


(***************************************************************************)
(* Properties of the paths of the trie.                                    *)
(***************************************************************************)
RECURSIVE NodesAlong(_)
\* The nodes reached from the root by following the labels P over children
\* of any type.
NodesAlong(P) ==
  IF Len(P) = 0 THEN {1}
  ELSE { c \in 1..Len(root) :
           \E n \in NodesAlong(SubSeq(P, 1, Len(P) - 1)) :
             c \in Children(root, n) /\ root[c].label = P[Len(P)] }

\* The Sequence stubs of reference r right below node n.
StubsOf(n, r) ==
  { c \in Children(root, n) :
      root[c].node_type = "Sequence" /\ root[c].lo = r /\ root[c].hi = r + 1 }

SequenceLeaves ==
  { n \in 1..Len(root) : root[n].node_type = "Sequence" /\ Children(root, n) = {} }

\* C25: after Tree::new every row r has a path from the root labelled with
\* the tokens of its lineage that ends in a Taxon with a Sequence stub of
\* range [r, r + 1) right below it; rows of one lineage end in one Taxon;
\* the Sequence leaves are as many as num_tips.
C25_RowPathEndsInTaxon ==
  tpc = "done" =>
    /\ \A r \in 0..(Len(sorted) - 1) :
         \E n \in NodesAlong(Split(sorted[r + 1])) :
           /\ root[n].node_type = "Taxon"
           /\ StubsOf(n, r) # {}
    /\ \A r, q \in 0..(Len(sorted) - 1) :
         sorted[r + 1] = sorted[q + 1] =>
           \E n \in NodesAlong(Split(sorted[r + 1])) :
             /\ root[n].node_type = "Taxon"
             /\ Cardinality(StubsOf(n, r)) = 1
             /\ Cardinality(StubsOf(n, q)) = 1
    /\ Cardinality(SequenceLeaves) = num_tips


(***************************************************************************)
(* Properties of iterative_pmfs_ln.                                        *)
(***************************************************************************)
PmfReturned == ret.fn = "iterative_pmfs_ln"

\* The fraction is the closed form C(s+i-1, i) C(total-s+T-i-1, T-i) /
\* C(total+T-1, T).
IsClosedForm(f, total, T, s, i) ==
  f[1] * Binomial(total + T - 1, T)
    = f[2] * Binomial(s + i - 1, i) * Binomial(total - s + T - i - 1, T - i)

RECURSIVE SumFractions(_)
\* The sum of fractions, as a fraction.
SumFractions(v) ==
  IF Len(v) = 0 THEN <<0, 1>>
  ELSE LET rest == SumFractions(Tail(v))
       IN  << Head(v)[1] * rest[2] + rest[1] * Head(v)[2], Head(v)[2] * rest[2] >>

\* C26: for every size s of the map the call returns a vector of T + 1
\* entries that add up to 1; for 0 < s < total entry i is the closed form,
\* for s = total the vector is 1 at i = T and 0 elsewhere, for s = 0 < total
\* it is 1 at i = 0 and 0 elsewhere.
C26_IterativeIsClosedForm ==
  PmfReturned =>
    /\ ~ret.panicked
    /\ \A s \in call.intersection_sizes :
         LET total == call.total_num_k_mers
             T == call.num_trials
             pmf == ret.pmfs[s]
         IN  /\ Len(pmf) = T + 1
             /\ \A i \in 0..T : pmf[i + 1][2] > 0
             /\ SumFractions(pmf)[1] = SumFractions(pmf)[2]
             /\ (0 < s /\ s < total) =>
                  \A i \in 0..T : IsClosedForm(pmf[i + 1], total, T, s, i)
             /\ s = total =>
                  \A i \in 0..T : pmf[i + 1][1] = (IF i = T THEN pmf[i + 1][2] ELSE 0)
             /\ (s = 0 /\ total > 0) =>
                  \A i \in 0..T : pmf[i + 1][1] = (IF i = 0 THEN pmf[i + 1][2] ELSE 0)


(***************************************************************************)
(* Properties of sse_ordered_set_intersection_count.                       *)
(***************************************************************************)
SseReturned == ret.fn = "sse_count"

ValuesOf(set) == { set[i] : i \in 1..Len(set) }

\* C27: the call returns, and its count is the number of values present in
\* both sequences.
C27_SseCountIsIntersection ==
  SseReturned =>
    /\ ~ret.fault
    /\ ret.count = Cardinality(ValuesOf(call.set_a) \cap ValuesOf(call.set_b))


(***************************************************************************)
(* Properties of the progress file across invocations.                     *)
(***************************************************************************)
\* get_output has just taken the checkpoint and its done-set from the files.
Resumed == pc = "opened" /\ loaded

\* The result lines of query q in a file.
LinesOfQuery(lines, q) == { i \in 1..Len(lines) : lines[i].tab /\ lines[i].query = q }

\* The line was produced under the result flags and the database of the
\* checkpoint held by main.
UnderCheckpoint(l) ==
  /\ l.skip = checkpoint.skip_exact_matches
  /\ l.raw = checkpoint.raw_confidence
  /\ l.content = disk.db[checkpoint.db_path].content

\* C28: without --redo and without changes from outside, every label a
\* resume reads as done has result lines in the primary output, and every
\* result line of such a label was produced under the flags and the database
\* of the checkpoint being resumed.
C28_DoneUnderSameFlags ==
  (Resumed /\ ~tampered /\ \A i \in 1..Len(hist) : ~hist[i].args.redo) =>
    \A q \in checkpoint.processed_queries :
      /\ LinesOfQuery(disk.out.lines, q) # {}
      /\ \A i \in LinesOfQuery(disk.out.lines, q) : UnderCheckpoint(disk.out.lines[i])


(***************************************************************************)
(* Properties of a dispatch over no pending query.                         *)
(***************************************************************************)
\* main has spawned the writer and entered raxtax in this invocation.
EnteredRaxtax == wpc # "idle"

\* No message was sent and the three files are as long as at the spawn.
NothingWritten ==
  /\ sentLog = <<>>
  /\ chan = <<>>
  /\ Len(disk.out.lines) = base.out
  /\ Len(disk.tsv.lines) = base.tsv
  /\ Len(disk.prog.lines) = base.prog

\* C29: a dispatch over an empty list of pending queries does not panic, ends
\* with exit code OK and writes nothing, whatever the worker count.
C29_EmptyPendingSucceeds ==
  (EnteredRaxtax /\ queries = <<>>) =>
    /\ ~panicked
    /\ pc = "exited" => exitcode = "OK"
    /\ pc # "exited" => NothingWritten


(***************************************************************************)
(* Properties of the binning output.                                       *)
(***************************************************************************)
\* The invocation and every earlier one had --binning and the command line
\* of this one, and every earlier one was killed.
BinningResumed ==
  /\ args.binning
  /\ loaded
  /\ ResumedAfterKill

\* C30: with --binning, when an interrupted run has been resumed from its
\* checkpoint and has ended, the binning output holds exactly one line for
\* every query of the query file.
C30_OneBinningLinePerQuery ==
  (pc = "exited" /\ exitcode = "OK" /\ BinningResumed /\ NoFailure /\ ~tampered) =>
    \A q \in 1..NumQueries : Cardinality(LinesOfQuery(disk.binning.lines, q)) = 1

====
